---------------------------- MODULE Spec2Model ----------------------------
(***************************************************************************)
(* A model of fs/squashfs/sqfs.c, the read-only SquashFS reader of U-Boot. *)
(*                                                                         *)
(* The module holds several specifications, one per part of the reader:   *)
(*   SpecProbe  the process-wide reader context (sqfs_probe, sqfs_close)   *)
(*   SpecDir    directory streams (sqfs_opendir, sqfs_readdir,             *)
(*              sqfs_closedir) over a byte-level directory table           *)
(*   SpecRead   the file reader (sqfs_read, sqfs_size on files and links)  *)
(*   SpecMem    the heap allocations of sqfs_opendir, sqfs_read, sqfs_size *)
(*   SpecTable  the loaders of the inode table and the directory table     *)
(* Every specification shares the variables below; the variables of the    *)
(* parts a specification does not exercise stay at their initial values.   *)
(***************************************************************************)
EXTENDS Integers, Sequences, FiniteSets, TLC

(***************************************************************************)
(* State.                                                                  *)
(***************************************************************************)
VARIABLES
    \* -- the reader context (SpecProbe)
    cur_dev,      \* ctxt.cur_dev: NULL or the device descriptor
    ctxt_sblk,    \* ctxt.sblk: NULL (static storage) or a superblock buffer
    sblk_heap,    \* superblock buffers: id -> [st, frees, img]
    probe_last,   \* what the last call of the facade did (for the properties)
    \* -- one directory stream (SpecDir)
    d_img,        \* the mounted image: directory table, inodes, inode count
    d_state,      \* "none", "open" or "closed"
    dirs,         \* struct squashfs_dir_stream of the open stream
    d_dir,        \* inode number of the directory the stream was opened on
    yielded,      \* the names successive sqfs_readdir calls have yielded
    d_last,       \* the last call on the stream: [op, ret, why]
    \* -- sqfs_read and sqfs_size on a path (SpecRead)
    r_img,        \* the mounted image: tables, data area, fragment entries
    r_env,        \* what memory the reader must not read holds: [oob, uret]
    r_last,       \* the last call: [op, path, offset, len, res]
    r_parts,      \* the results of the per-block reads of /f made so far
    \* -- the heap (SpecMem)
    m_heap,       \* the number of live blocks under each allocation name
    m_stream,     \* "open" while a stream of sqfs_opendir is not closed
    m_calls,      \* how many calls were made
    m_last,       \* the last call: [op, ret, before], before the heap it met
    \* -- the table loaders (SpecTable)
    t_chain,      \* the metadata blocks of the table on disk, in order
    t_last        \* the last load: [op, res]

probeVars == << cur_dev, ctxt_sblk, sblk_heap, probe_last >>
dirVars == << d_img, d_state, dirs, d_dir, yielded, d_last >>
readVars == << r_img, r_env, r_last, r_parts >>

memVars == << m_heap, m_stream, m_calls, m_last >>

tableVars == << t_chain, t_last >>

vars == << probeVars, dirVars, readVars, memVars, tableVars >>

\* what the actions of one part leave alone
notProbeVars == << dirVars, readVars, memVars, tableVars >>
notDirVars == << probeVars, readVars, memVars, tableVars >>
notReadVars == << probeVars, dirVars, memVars, tableVars >>
notMemVars == << probeVars, dirVars, readVars, tableVars >>
notTableVars == << probeVars, dirVars, readVars, memVars >>

(***************************************************************************)
(* Values shared by all parts.                                             *)
(***************************************************************************)
NULL == 0

\* errno values returned (negated) by the reader
EINVAL == 22
ENOMEM == 12
ENOENT == 2

Min(a, b) == IF a < b THEN a ELSE b

RECURSIVE Pow2(_)
Pow2(n) == IF n = 0 THEN 1 ELSE 2 * Pow2(n - 1)

\* get_unaligned_le32 / get_unaligned_le16 on a sequence of bytes, 1-based at p
get_unaligned_le16(b, p) == b[p] + 256 * b[p + 1]
get_unaligned_le32(b, p) ==
    b[p] + 256 * b[p + 1] + 65536 * b[p + 2] + 16777216 * b[p + 3]

\* the little-endian encodings the images below are built with
le16(v) == << v % 256, (v \div 256) % 256 >>
le32(v) == << v % 256, (v \div 256) % 256, (v \div 65536) % 256,
              (v \div 16777216) % 256 >>

(***************************************************************************)
(* PART 1.  The reader context: sqfs_probe, sqfs_read_sblk, sqfs_close.    *)
(***************************************************************************)
\* how many superblock buffers (probe calls that allocate) a run may use
MaxProbes == 3

SQFS_MAGIC_NUMBER == 1936814952     \* 0x73717368

\* the device descriptor handed to sqfs_probe
DEV == 1

(* The superblocks a device may hold: the first four bytes and the table
   offsets (inode, directory, fragment, export, id table start; bytes_used). *)
SblkGood ==
    [ bytes |-> le32(SQFS_MAGIC_NUMBER),
      inode_table_start |-> 96, directory_table_start |-> 160,
      fragment_table_start |-> 200, export_table_start |-> 200,
      id_table_start |-> 216, bytes_used |-> 224 ]
SblkBadMagic == [ SblkGood EXCEPT !.bytes = << 115, 113, 115, 104 >> ]
SblkZero == [ SblkGood EXCEPT !.bytes = << 0, 0, 0, 0 >> ]
SblkMisordered ==
    [ SblkGood EXCEPT !.inode_table_start = 160,
                      !.directory_table_start = 96 ]
SblkPastEnd == [ SblkGood EXCEPT !.id_table_start = 300 ]

Superblocks ==
    { SblkGood, SblkBadMagic, SblkZero, SblkMisordered, SblkPastEnd }

SblkBufs == 1 .. MaxProbes

\* the first buffer malloc_cache_aligned has not handed out yet (0: none left)
FreshSblk ==
    IF \E b \in SblkBufs : sblk_heap[b].st = "unalloc"
    THEN CHOOSE b \in SblkBufs :
            /\ sblk_heap[b].st = "unalloc"
            /\ \A c \in SblkBufs : sblk_heap[c].st = "unalloc" => b <= c
    ELSE NULL

\* free(p): free(NULL) is a no-op; every other call is counted on the buffer
HeapFree(h, p) ==
    IF p = NULL THEN h
    ELSE [ h EXCEPT ![p].st = "freed", ![p].frees = @ + 1 ]

(* sqfs_read_sblk: allocate one device block and read block 0 into it.
   Returns [ret, sblk, heap]; on a failed read the buffer is freed and the
   caller's pointer keeps the freed address. *)
sqfs_read_sblk(h, img, mallocOK, readOK) ==
    LET b == FreshSblk IN
    IF ~mallocOK
    THEN [ ret |-> -ENOMEM, sblk |-> NULL, heap |-> h ]
    ELSE LET h1 == [ h EXCEPT ![b] = [ st |-> "live", frees |-> 0,
                                       img |-> img ] ] IN
         IF ~readOK
         THEN [ ret |-> -EINVAL, sblk |-> b, heap |-> HeapFree(h1, b) ]
         ELSE [ ret |-> 0, sblk |-> b, heap |-> h1 ]

\* the check of the magic number made by sqfs_probe
MagicOK(img) == get_unaligned_le32(img.bytes, 1) = SQFS_MAGIC_NUMBER

(* sqfs_probe, as [ret, cur_dev, ctxt_sblk, heap, buf]: buf is the buffer
   this call allocated (NULL when malloc failed).  The table offsets of the
   superblock are not looked at. *)
ProbeOutcome(h, img, mallocOK, readOK, decompOK) ==
    LET r == sqfs_read_sblk(h, img, mallocOK, readOK) IN
    IF r.ret # 0
    THEN [ ret |-> r.ret, cur_dev |-> DEV, ctxt_sblk |-> ctxt_sblk,
           heap |-> r.heap, buf |-> r.sblk ]
    ELSE IF ~MagicOK(img)
    THEN [ ret |-> -EINVAL, cur_dev |-> NULL, ctxt_sblk |-> ctxt_sblk,
           heap |-> r.heap, buf |-> r.sblk ]
    ELSE IF ~decompOK
    THEN [ ret |-> -EINVAL, cur_dev |-> NULL, ctxt_sblk |-> r.sblk,
           heap |-> HeapFree(r.heap, r.sblk), buf |-> r.sblk ]
    ELSE [ ret |-> 0, cur_dev |-> DEV, ctxt_sblk |-> r.sblk,
           heap |-> r.heap, buf |-> r.sblk ]

ProbeInit ==
    /\ cur_dev = NULL
    /\ ctxt_sblk = NULL
    /\ sblk_heap = [ b \in SblkBufs |->
                       [ st |-> "unalloc", frees |-> 0, img |-> SblkGood ] ]
    /\ probe_last = [ op |-> "none", ret |-> 0, buf |-> NULL, img |-> SblkGood,
                      mallocOK |-> TRUE, readOK |-> TRUE, decompOK |-> TRUE ]

\* a bound on how often one buffer may be passed to free() in a run
MaxFrees == 2

sqfs_probe(img, mallocOK, readOK, decompOK) ==
    /\ FreshSblk # NULL
    /\ \E o \in { ProbeOutcome(sblk_heap, img, mallocOK, readOK,
                                decompOK) } :
        /\ cur_dev' = o.cur_dev
        /\ ctxt_sblk' = o.ctxt_sblk
        /\ sblk_heap' = o.heap
        /\ probe_last' = [ op |-> "probe", ret |-> o.ret, buf |-> o.buf,
                           img |-> img, mallocOK |-> mallocOK,
                           readOK |-> readOK, decompOK |-> decompOK ]
    /\ UNCHANGED notProbeVars

sqfs_close ==
    /\ ctxt_sblk # NULL => sblk_heap[ctxt_sblk].frees < MaxFrees
    /\ sblk_heap' = HeapFree(sblk_heap, ctxt_sblk)
    /\ cur_dev' = NULL
    /\ probe_last' = [ probe_last EXCEPT !.op = "close", !.ret = 0 ]
    /\ UNCHANGED << ctxt_sblk, notProbeVars >>

ProbeNext ==
    \/ \E img \in Superblocks, mallocOK, readOK, decompOK \in BOOLEAN :
          sqfs_probe(img, mallocOK, readOK, decompOK)
    \/ sqfs_close

(***************************************************************************)
(* PART 2.  Path utilities.  A C string is a sequence of character codes   *)
(* (without the terminating NUL); NULLSTR stands for a NULL char pointer.  *)
(***************************************************************************)
SLASH == 47      \* '/'
DOTDOT == << 46, 46 >>      \* ".."
NULLSTR == << 0 >>

RECURSIVE Concat(_)
Concat(ss) == IF ss = << >> THEN << >> ELSE Head(ss) \o Concat(Tail(ss))

\* strlen of the run of non-'/' characters s starts with
RECURSIVE RunLen(_)
RunLen(s) ==
    IF s = << >> \/ Head(s) = SLASH THEN 0 ELSE 1 + RunLen(Tail(s))

\* the tokens successive strtok(.., "/") calls return for s
RECURSIVE StrTok(_)
StrTok(s) ==
    IF s = << >> THEN << >>
    ELSE IF Head(s) = SLASH THEN StrTok(Tail(s))
    ELSE << SubSeq(s, 1, RunLen(s)) >>
         \o StrTok(SubSeq(s, RunLen(s) + 1, Len(s)))

sqfs_count_tokens(filename) ==
    LET slashes == Cardinality({ l \in 2 .. Len(filename) :
                                   filename[l] = SLASH })
        trailing == IF filename[Len(filename)] = SLASH THEN 1 ELSE 0
        token_count == 1 + slashes - trailing
    IN  IF token_count = 0 THEN 1 ELSE token_count

(* sqfs_tokenize: the token list of str, count entries long.  A strtok that
   runs out of tokens returns NULL, which the code hands to strdup. *)
sqfs_tokenize(count, str) ==
    IF str = << SLASH >> THEN << str >>
    ELSE [ j \in 1 .. count |->
             IF j <= Len(StrTok(str)) THEN StrTok(str)[j] ELSE NULLSTR ]

sqfs_get_tokens_length(tokens, count) ==
    Len(Concat([ i \in 1 .. count |-> tokens[i] \o << SLASH >> ]))

\* every token followed by '/'
sqfs_concat_tokens(token_list, token_count) ==
    Concat([ i \in 1 .. token_count |-> token_list[i] \o << SLASH >> ])

\* strings[start .. end - 1] (0-based, as in the code) separated by '/'
sqfs_join(strings, start, end) ==
    Concat([ k \in 1 .. (end - start) |->
               strings[start + k]
               \o (IF start + k - 1 < end - 1 THEN << SLASH >> ELSE << >>) ])

\* sqfs_clean_base_path that keeps the last token of the base path
CleanBasePathKeepsLast(count, updir) == count - updir

sqfs_clean_base_path(count, updir) == count - updir - 1

(* sqfs_get_abs_path: NULLSTR when the base has too few tokens. *)
sqfs_get_abs_path(base, rel) ==
    LET bc == sqfs_count_tokens(base)
        rc == sqfs_count_tokens(rel)
        base_tokens == sqfs_tokenize(bc, base)
        rel_tokens == sqfs_tokenize(rc, rel)
        updir == Cardinality({ i \in 1 .. rc : rel_tokens[i] = DOTDOT })
        bc2 == sqfs_clean_base_path(bc, updir)
    IN  IF bc2 < 0 THEN NULLSTR
        ELSE sqfs_join(base_tokens, 0, bc2) \o << SLASH >>
             \o sqfs_join(rel_tokens, updir, rc)

\* the symlink inode's target, made absolute against base_path
sqfs_resolve_symlink(sym, base_path) ==
    sqfs_get_abs_path(base_path, SubSeq(sym.symlink, 1, sym.symlink_size))

\* 1-based index of the last '/' of path (0: none)
LastSlash(path) ==
    IF \E i \in 1 .. Len(path) : path[i] = SLASH
    THEN CHOOSE i \in 1 .. Len(path) :
            /\ path[i] = SLASH
            /\ \A k \in (i + 1) .. Len(path) : path[k] # SLASH
    ELSE 0

sqfs_basename(path) == SubSeq(path, LastSlash(path) + 1, Len(path))
sqfs_dirname(path) == SubSeq(path, 1, LastSlash(path) - 1)

\* sqfs_split_path: [file, dir] of a path, a leading '/' added when missing
sqfs_split_path(path) ==
    LET tmp_path == IF path[1] = SLASH THEN path ELSE << SLASH >> \o path
        dname == sqfs_dirname(tmp_path)
    IN  [ file |-> sqfs_basename(tmp_path),
          dir |-> IF dname = << >> THEN << SLASH >> ELSE dname ]

(***************************************************************************)
(* PART 3.  Images.  The decompressed directory table is a sequence of     *)
(* bytes laid out as on disk; the decompressed inode table is read through *)
(* the inode locator, by inode number.                                     *)
(***************************************************************************)
SQFS_DIR_HEADER_SIZE == 12
SQFS_ENTRY_BASE_LENGTH == 8
SQFS_EMPTY_FILE_SIZE == 3
SQFS_STOP_READDIR == 1
SQFS_EMPTY_DIR == -1

SQFS_DIR_TYPE == 1
SQFS_REG_TYPE == 2
SQFS_SYMLINK_TYPE == 3
SQFS_BLKDEV_TYPE == 4
SQFS_LDIR_TYPE == 8
SQFS_LREG_TYPE == 9
SQFS_LSYMLINK_TYPE == 10
SQFS_LSOCKET_TYPE == 14

\* squashfs_directory_header: count (entries - 1), start, inode_number
HeaderBytes(count, start, inode_number) ==
    le32(count) \o le32(start) \o le32(inode_number)

\* squashfs_directory_entry: offset, inode_offset (s16), type, name_size, name
EntryBytes(e, base) ==
    le16(0) \o le16((e.ino - base) % 65536) \o le16(e.type)
    \o le16(Len(e.name) - 1) \o e.name

(* The listing of one directory: hs is its sequence of headers, each a
   non-empty sequence of entries [name, ino, type]; a header's base inode
   number is that of its first entry. *)
DirListing(hs) ==
    Concat([ h \in 1 .. Len(hs) |->
        HeaderBytes(Len(hs[h]) - 1, 0, hs[h][1].ino)
        \o Concat([ i \in 1 .. Len(hs[h]) |->
                      EntryBytes(hs[h][i], hs[h][1].ino) ]) ])

\* the names of a directory in on-disk order
RECURSIVE DirNames(_)
DirNames(hs) ==
    IF hs = << >> THEN << >>
    ELSE [ i \in 1 .. Len(Head(hs)) |-> Head(hs)[i].name ]
         \o DirNames(Tail(hs))

\* byte offset of the k-th listing in the table made of these listings
RECURSIVE ListingOffset(_, _)
ListingOffset(ds, k) ==
    IF k = 1 THEN 0
    ELSE ListingOffset(ds, k - 1) + Len(DirListing(ds[k - 1].headers))

\* what the bytes of the table buffer past the decoded listings hold
TablePadding == [ i \in 1 .. SQFS_DIR_HEADER_SIZE |-> 0 ]

\* the fragment field of a file without a tail in a fragment block: the
\* all-ones u32 0xFFFFFFFF, held as the 32-bit integer of the same bits
NO_FRAGMENT == -1

DirInode(ds, k) ==
    [ inode_type |-> SQFS_DIR_TYPE,
      file_size |-> Len(DirListing(ds[k].headers)) + SQFS_EMPTY_FILE_SIZE,
      start_block |-> 0,
      offset |-> ListingOffset(ds, k),
      symlink_size |-> 0, symlink |-> << >>,
      fragment |-> NO_FRAGMENT, blk_sizes |-> << >> ]

\* squashfs_reg_inode: file_size, start_block, fragment, offset, block list
RegInode(size, start, blk_sizes, fragment, offset) ==
    [ inode_type |-> SQFS_REG_TYPE, file_size |-> size, start_block |-> start,
      offset |-> offset, symlink_size |-> 0, symlink |-> << >>,
      fragment |-> fragment, blk_sizes |-> blk_sizes ]

\* squashfs_lreg_inode: the extended form of a regular file inode
LRegInode(size, start, blk_sizes, fragment, offset) ==
    [ RegInode(size, start, blk_sizes, fragment, offset) EXCEPT
        !.inode_type = SQFS_LREG_TYPE ]

SymlinkInode(target) ==
    [ inode_type |-> SQFS_SYMLINK_TYPE, file_size |-> 0, start_block |-> 0,
      offset |-> 0, symlink_size |-> Len(target), symlink |-> target,
      fragment |-> NO_FRAGMENT, blk_sizes |-> << >> ]

OtherInode(type) ==
    [ inode_type |-> type, file_size |-> 0, start_block |-> 0,
      offset |-> 0, symlink_size |-> 0, symlink |-> << >>,
      fragment |-> NO_FRAGMENT, blk_sizes |-> << >> ]

(* An image from its directories ds (each [ino, headers], the root last),
   its other inodes (a function from inode number), its data area and its
   fragment entries.  sblk->inodes, the inode count, is the inode number of
   the root directory; block_size is sblk->block_size. *)
MakeImage(ds, others, disk, fragments, block_size) ==
    [ dir_table |-> Concat([ k \in 1 .. Len(ds) |->
                               DirListing(ds[k].headers) ]) \o TablePadding,
      inodes |-> [ n \in { ds[k].ino : k \in 1 .. Len(ds) }
                         \cup DOMAIN others |->
                     IF n \in DOMAIN others THEN others[n]
                     ELSE DirInode(ds, CHOOSE k \in 1 .. Len(ds) :
                                            ds[k].ino = n) ],
      sblk_inodes |-> ds[Len(ds)].ino,
      dirs |-> ds,
      disk |-> disk, fragments |-> fragments, block_size |-> block_size ]

\* the headers of the directory with inode number n
HeadersOf(img, n) ==
    img.dirs[CHOOSE k \in 1 .. Len(img.dirs) : img.dirs[k].ino = n].headers

(***************************************************************************)
(* PART 4.  Directory streams: sqfs_readdir, sqfs_search_dir,              *)
(* sqfs_opendir, sqfs_closedir.  A stream is the record                    *)
(*   [size, entry_count, dir_header, entry, table, i_dir, dentp]           *)
(* of struct squashfs_dir_stream; table is a byte offset into dir_table.   *)
(***************************************************************************)
(* size_t arithmetic: a negative int stored into a size_t wraps to a value
   near the top of the range.  TLC computes with 32-bit integers, so the
   wrap is placed at 2^30: the wrapped value is, as in the code, far larger
   than any directory or header size. *)
SizeT(x) == IF x < 0 THEN x + Pow2(30) ELSE x

S16(v) == IF v >= 32768 THEN v - 65536 ELSE v

NoEntry == [ offset |-> 0, inode_offset |-> 0, type |-> 0, name_size |-> 0,
             name |-> NULLSTR ]
NoDent == [ name |-> NULLSTR, type |-> "none", size |-> 0 ]
NoHeader == [ count |-> 0, start |-> 0, inode_number |-> 0 ]

\* memcpy(dirs->dir_header, &dir_table[p], SQFS_DIR_HEADER_SIZE)
ReadHeader(img, p) ==
    [ count |-> get_unaligned_le32(img.dir_table, p + 1),
      start |-> get_unaligned_le32(img.dir_table, p + 5),
      inode_number |-> get_unaligned_le32(img.dir_table, p + 9) ]

\* sqfs_read_entry: the copy of the entry at byte offset p, its name included
sqfs_read_entry(img, p) ==
    LET sz == get_unaligned_le16(img.dir_table, p + 7) IN
    [ offset |-> get_unaligned_le16(img.dir_table, p + 1),
      inode_offset |-> S16(get_unaligned_le16(img.dir_table, p + 3)),
      type |-> get_unaligned_le16(img.dir_table, p + 5),
      name_size |-> sz,
      name |-> SubSeq(img.dir_table, p + SQFS_ENTRY_BASE_LENGTH + 1,
                      p + SQFS_ENTRY_BASE_LENGTH + sz + 1) ]

\* the inode locator: the inode with this number in the inode table
sqfs_find_inode(img, inode_number) == img.inodes[inode_number]

\* byte position of a directory inode's listing in the directory table
sqfs_dir_offset(inode) == inode.offset

sqfs_is_dir(type) == type = SQFS_DIR_TYPE \/ type = SQFS_LDIR_TYPE

sqfs_is_empty_dir(inode) == inode.file_size = SQFS_EMPTY_FILE_SIZE

\* the fs_dirent type sqfs_readdir gives an entry type ("": the default case)
DentType(type) ==
    IF type \in { SQFS_DIR_TYPE, SQFS_LDIR_TYPE } THEN "FS_DT_DIR"
    ELSE IF type \in { SQFS_REG_TYPE, SQFS_LREG_TYPE } THEN "FS_DT_REG"
    ELSE IF type \in { SQFS_SYMLINK_TYPE, SQFS_LSYMLINK_TYPE }
    THEN "FS_DT_LNK"
    ELSE IF type \in SQFS_BLKDEV_TYPE .. SQFS_LSOCKET_TYPE
    THEN "SQFS_MISC_ENTRY_TYPE"
    ELSE ""

\* the end-of-stream return: *dentp = NULL; return -SQFS_STOP_READDIR
StopDentStale(d, why) ==
    [ ret |-> -SQFS_STOP_READDIR, dirs |-> d, dentp |-> d.dentp,
      why |-> why ]

StopResult(d, why) ==
    [ ret |-> -SQFS_STOP_READDIR, dirs |-> d, dentp |-> NoDent, why |-> why ]

\* where sqfs_read_entry reads: past the follow-up header when there is one
EntrySrcAtHeader(d, newhdr) == d.table

EntrySrc(d, newhdr) ==
    IF newhdr THEN d.table + SQFS_DIR_HEADER_SIZE ELSE d.table

(* sqfs_readdir on stream d returns [ret, dirs, dentp, why].  mallocOK is
   whether the malloc of sqfs_read_entry succeeds.  why tells the return
   paths apart: "budget" (the byte budget is used up), "nomem", "type", "ok".
   The function is split where the code's control flow joins. *)

\* lines 935-983: the fs_dirent made of dirs->entry (size kept when not set)
ReaddirDent(img, d) ==
    [ name |-> SubSeq(d.entry.name, 1, d.entry.name_size + 1),
      type |-> DentType(d.entry.type),
      size |-> IF DentType(d.entry.type) = "FS_DT_REG"
               THEN sqfs_find_inode(img, d.dir_header.inode_number
                                         + d.entry.inode_offset).file_size
               ELSE d.dentp.size ]

\* lines 985-999: step over the entry, offset bytes long, and hand out dent
ReaddirAdvance(d, dent, offset) ==
    [ ret |-> 0,
      dirs |-> [ d EXCEPT !.entry_count = @ - 1,
                          !.size = IF @ > offset THEN @ - offset ELSE 0,
                          !.table = @ + offset,
                          !.dentp = dent ],
      dentp |-> dent, why |-> "ok" ]

\* lines 935-999: from the type switch to the return
ReaddirSetDent(img, d) ==
    IF DentType(d.entry.type) = "" THEN StopResult(d, "type")
    ELSE ReaddirAdvance(d, ReaddirDent(img, d),
                        d.entry.name_size + 1 + SQFS_ENTRY_BASE_LENGTH)

\* lines 922-927 and 930-932: sqfs_read_entry from src, then on to the switch
ReaddirEntry(img, d, src, mallocOK) ==
    IF ~mallocOK THEN StopResult([ d EXCEPT !.entry = NoEntry ], "nomem")
    ELSE ReaddirSetDent(img, [ d EXCEPT !.entry = sqfs_read_entry(img, src),
                                        !.table = src ])

\* lines 917-928: the follow-up header, read when more than the sentinel is left
ReaddirHeader(img, d, mallocOK) ==
    IF d.size > SQFS_EMPTY_FILE_SIZE
    THEN ReaddirEntry(img,
             [ d EXCEPT !.dir_header = ReadHeader(img, d.table),
                        !.entry_count = ReadHeader(img, d.table).count + 1 ],
             EntrySrc(d, TRUE), mallocOK)
    ELSE ReaddirSetDent(img, d)

sqfs_readdir(img, d, mallocOK) ==
    IF d.size = 0 THEN StopResult(d, "budget")
    ELSE IF d.entry_count = 0
    THEN IF d.size > SQFS_DIR_HEADER_SIZE
         THEN ReaddirHeader(img, [ d EXCEPT !.size = @ - SQFS_DIR_HEADER_SIZE ],
                            mallocOK)
         ELSE StopResult([ d EXCEPT !.size = 0 ], "budget")
    ELSE ReaddirEntry(img, d, EntrySrc(d, FALSE), mallocOK)

\* how many symlinks one walk may chase in the model before it is cut off
MaxChase == 3

(* Results that are not return values: the call dereferenced a NULL pointer
   (CRASHED), or was still recursing when the model cut it off (CUT_OFF). *)
CRASHED == -99
CUT_OFF == -98

(* The scan loop of sqfs_search_dir, sqfs_read and sqfs_size:
     while (!sqfs_readdir(dirsp, &dent)) {
         ret = strcmp(dent->name, name); if (!ret) break; free(dirs->entry); }
   ret is the value the variable holds before the loop; the result is
   [ret, dirs, n] with n the number of entries the loop was given.  ScanStep
   is the loop body on the result r of one sqfs_readdir. *)
RECURSIVE ScanDir(_, _, _, _, _)
ScanStep(img, r, name, ret, n) ==
    IF r.ret # 0 THEN [ ret |-> ret, dirs |-> r.dirs, n |-> n ]
    ELSE IF r.dentp.name = name
    THEN [ ret |-> 0, dirs |-> r.dirs, n |-> n + 1 ]
    ELSE ScanDir(img, r.dirs, name, 1, n + 1)

ScanDir(img, d, name, ret, n) ==
    ScanStep(img, sqfs_readdir(img, d, TRUE), name, ret, n)

\* lines 455-468 and 548-565: point the stream at the listing of inode dir
SearchSetDir(img, d, dir) ==
    [ d EXCEPT
        !.dir_header = ReadHeader(img, sqfs_dir_offset(dir)),
        !.table = sqfs_dir_offset(dir) + SQFS_DIR_HEADER_SIZE,
        !.size = SizeT((dir.file_size % 65536) - SQFS_DIR_HEADER_SIZE),
        !.entry_count = ReadHeader(img, sqfs_dir_offset(dir)).count + 1 ]

(* sqfs_search_dir returns [ret, dirs].  uret is the value its uninitialised
   local ret holds on entry; fuel bounds the symlink recursion in the model.
   SearchLoop is the for loop at token j (1-based) with dir the inode the
   walk stands on; SearchFound, SearchEnter and SearchSymlink are the loop
   body after the scan, after the inode lookup and in the symlink branch. *)
RECURSIVE sqfs_search_dir(_, _, _, _, _, _)
RECURSIVE SearchLoop(_, _, _, _, _, _, _, _)

\* lines 515-536: res = target "/" rem, tokenized and walked from the root
SearchSymlink(img, ds, target, rem, fuel) ==
    IF target = NULLSTR THEN [ ret |-> CRASHED, dirs |-> ds ]
    ELSE IF fuel = 0 THEN [ ret |-> CUT_OFF, dirs |-> ds ]
    ELSE sqfs_search_dir(img, ds,
             sqfs_tokenize(sqfs_count_tokens(target \o << SLASH >> \o rem),
                           target \o << SLASH >> \o rem),
             sqfs_count_tokens(target \o << SLASH >> \o rem), 0, fuel - 1)

\* lines 504-566: table is the inode of the entry the scan stopped on
SearchEnter(img, ds, table, token_list, token_count, j, fuel) ==
    IF table.inode_type = SQFS_SYMLINK_TYPE
    THEN SearchSymlink(img, ds,
             sqfs_resolve_symlink(table, sqfs_concat_tokens(token_list, j)),
             sqfs_concat_tokens(SubSeq(token_list, j + 1, token_count),
                                token_count - j),
             fuel)
    ELSE IF ~sqfs_is_dir(table.inode_type)
    THEN [ ret |-> -EINVAL, dirs |-> ds ]
    ELSE IF sqfs_is_empty_dir(table)
    THEN [ ret |-> SQFS_EMPTY_DIR,
           dirs |-> [ ds EXCEPT
                        !.table = sqfs_dir_offset(table),
                        !.dir_header =
                            ReadHeader(img, sqfs_dir_offset(table)) ] ]
    ELSE SearchLoop(img, SearchSetDir(img, ds, table), table, token_list,
                    token_count, j + 1, 0, fuel)

\* lines 490-501: s is the result of the scan for token j
SearchFound(img, s, token_list, token_count, j, fuel) ==
    IF s.ret # 0 THEN [ ret |-> -EINVAL, dirs |-> s.dirs ]
    ELSE SearchEnter(img, s.dirs,
             sqfs_find_inode(img, s.dirs.entry.inode_offset
                                  + s.dirs.dir_header.inode_number),
             token_list, token_count, j, fuel)

SearchLoop(img, d, dir, token_list, token_count, j, ret, fuel) ==
    IF j > token_count
    THEN [ ret |-> 0,
           dirs |-> [ d EXCEPT !.table = sqfs_dir_offset(dir),
                               !.i_dir = dir ] ]
    ELSE IF ~sqfs_is_dir(dir.inode_type)
    THEN [ ret |-> -EINVAL, dirs |-> d ]
    ELSE SearchFound(img, ScanDir(img, d, token_list[j], ret, 0),
                     token_list, token_count, j, fuel)

\* lines 447-475: start at the root inode; "/" alone names it
SearchRoot(img, d, dir, token_list, token_count, uret, fuel) ==
    IF token_list[1] = << SLASH >>
    THEN [ ret |-> 0,
           dirs |-> [ SearchSetDir(img, d, dir) EXCEPT
                        !.table = sqfs_dir_offset(dir), !.i_dir = dir ] ]
    ELSE SearchLoop(img, SearchSetDir(img, d, dir), dir, token_list,
                    token_count, 1, uret, fuel)

sqfs_search_dir(img, d, token_list, token_count, uret, fuel) ==
    SearchRoot(img, d, sqfs_find_inode(img, img.sblk_inodes), token_list,
               token_count, uret, fuel)

\* the stream struct as malloc returns it to sqfs_opendir
FreshStream ==
    [ size |-> 0, entry_count |-> 0, dir_header |-> NoHeader,
      entry |-> NoEntry, table |-> 0, i_dir |-> OtherInode(0),
      dentp |-> NoDent ]

\* lines 859-876: r is what sqfs_search_dir returned
OpendirSetup(img, r) ==
    IF r.ret # 0 THEN r
    ELSE [ ret |-> 0,
           dirs |-> [ r.dirs EXCEPT
               !.size = SizeT(r.dirs.i_dir.file_size - SQFS_DIR_HEADER_SIZE),
               !.dir_header = ReadHeader(img, r.dirs.table),
               !.entry_count = ReadHeader(img, r.dirs.table).count + 1,
               !.entry = NoEntry,
               !.table = r.dirs.table + SQFS_DIR_HEADER_SIZE ] ]

(* sqfs_opendir once both tables are loaded: [ret, dirs]; *dirsp is set to
   dirs only when ret = 0. *)
sqfs_opendir(img, filename, uret) ==
    OpendirSetup(img,
        sqfs_search_dir(img, FreshStream,
            sqfs_tokenize(sqfs_count_tokens(filename), filename),
            sqfs_count_tokens(filename), uret, MaxChase))

(***************************************************************************)
(* PART 5.  One directory stream on an image (SpecDir).                    *)
(***************************************************************************)
\* the most entries the varying directory /d holds, over how many headers
MaxEntries == 4
MaxHeaders == 3
\* how many sqfs_readdir calls a run makes on one stream
MaxReaddirCalls == 7

N_d == << 100 >>
N_e == << 101 >>
N_f == << 102 >>
N_x == << 120 >>

\* the name of the i-th file of /d: one to three characters, all distinct
NameOf(i) == [ k \in 1 .. ((i % 3) + 1) |-> 96 + i ]

RECURSIVE SumSeq(_)
SumSeq(q) == IF q = << >> THEN 0 ELSE Head(q) + SumSeq(Tail(q))

\* how /d may be split: the number of entries under each of its headers
Layouts ==
    { hs \in UNION { [ 1 .. k -> 1 .. MaxEntries ] : k \in 1 .. MaxHeaders } :
        SumSeq(hs) <= MaxEntries }

(* The image for a layout: /d holds files 1 .. n split as the layout says,
   /e is empty, /f is a regular file; the root holds d and e under one header
   and f under a second one. *)
DirImage(hs) ==
    LET n == SumSeq(hs)
        first(h) == SumSeq(SubSeq(hs, 1, h - 1))
        dHeaders == [ h \in 1 .. Len(hs) |->
                        [ i \in 1 .. hs[h] |->
                            [ name |-> NameOf(first(h) + i),
                              ino |-> first(h) + i,
                              type |-> SQFS_REG_TYPE ] ] ]
        rootHeaders ==
            << << [ name |-> N_d, ino |-> n + 2, type |-> SQFS_DIR_TYPE ],
                  [ name |-> N_e, ino |-> n + 3, type |-> SQFS_DIR_TYPE ] >>,
               << [ name |-> N_f, ino |-> n + 1, type |-> SQFS_REG_TYPE ] >> >>
    IN  MakeImage(<< [ ino |-> n + 2, headers |-> dHeaders ],
                     [ ino |-> n + 3, headers |-> << >> ],
                     [ ino |-> n + 4, headers |-> rootHeaders ] >>,
                  [ i \in 1 .. (n + 1) |->
                      RegInode(10 + i, 0, << >>, NO_FRAGMENT, 0) ],
                  << >>, << >>, 1)

DirImages == { DirImage(hs) : hs \in Layouts }

\* the paths sqfs_opendir is called with
DirPaths ==
    { << SLASH >>, << SLASH >> \o N_d, << SLASH >> \o N_e,
      << SLASH >> \o N_f, << SLASH >> \o N_x, N_d,
      << SLASH >> \o N_d \o << SLASH >> }

(* What a path names in an image, by the names in its directories: the
   inode number, or 0 when a component is missing or not a directory. *)
RECURSIVE LookupFrom(_, _, _)
LookupFrom(img, ino, tokens) ==
    IF tokens = << >> THEN ino
    ELSE IF img.inodes[ino].inode_type # SQFS_DIR_TYPE THEN 0
    ELSE LET ents == Concat(HeadersOf(img, ino))
             hit == { i \in 1 .. Len(ents) : ents[i].name = Head(tokens) }
         IN  IF hit = { } THEN 0
             ELSE LookupFrom(img, ents[CHOOSE i \in hit : TRUE].ino,
                             Tail(tokens))

Lookup(img, path) == LookupFrom(img, img.sblk_inodes, StrTok(path))

IsDirIno(img, ino) ==
    ino # 0 /\ img.inodes[ino].inode_type = SQFS_DIR_TYPE

DirInit ==
    /\ d_img \in DirImages
    /\ d_state = "none"
    /\ dirs = FreshStream
    /\ d_dir = 0
    /\ yielded = << >>
    /\ d_last = [ op |-> "none", ret |-> 0, why |-> "", calls |-> 0,
                  clean |-> TRUE, exhausted |-> FALSE, path |-> << SLASH >>,
                  dent |-> NoDent ]

DirIdle ==
    /\ d_img = DirImage(<< 1 >>)
    /\ d_state = "none"
    /\ dirs = FreshStream
    /\ d_dir = 0
    /\ yielded = << >>
    /\ d_last = [ op |-> "none", ret |-> 0, why |-> "", calls |-> 0,
                  clean |-> TRUE, exhausted |-> FALSE, path |-> << SLASH >>,
                  dent |-> NoDent ]

Opendir(path, uret) ==
    /\ d_state = "none"
    /\ d_last.op = "none"
    /\ \E r \in { sqfs_opendir(d_img, path, uret) } :
        /\ d_state' = IF r.ret = 0 THEN "open" ELSE "none"
        /\ dirs' = IF r.ret = 0 THEN r.dirs ELSE dirs
        /\ d_dir' = IF r.ret = 0 THEN Lookup(d_img, path) ELSE 0
        /\ d_last' = [ d_last EXCEPT !.op = "opendir", !.ret = r.ret,
                                     !.path = path ]
    /\ UNCHANGED << d_img, yielded, notDirVars >>

Readdir(mallocOK) ==
    /\ d_state = "open"
    /\ d_last.calls < MaxReaddirCalls
    /\ \E r \in { sqfs_readdir(d_img, dirs, mallocOK) } :
        /\ dirs' = r.dirs
        /\ yielded' = IF r.ret = 0 THEN Append(yielded, r.dentp.name)
                      ELSE yielded
        /\ d_last' = [ d_last EXCEPT
                         !.op = "readdir", !.ret = r.ret, !.why = r.why,
                         !.calls = @ + 1, !.dent = r.dentp,
                         !.clean = @ /\ r.why # "nomem",
                         !.exhausted = @ \/ r.why = "budget" ]
    /\ UNCHANGED << d_img, d_state, d_dir, notDirVars >>

\* sqfs_closedir frees the tables and the header; it looks at no stream state
sqfs_closedir ==
    /\ d_state = "open"
    /\ d_state' = "closed"
    /\ d_last' = [ d_last EXCEPT !.op = "closedir", !.ret = 0 ]
    /\ UNCHANGED << d_img, dirs, d_dir, yielded, notDirVars >>

DirNext ==
    \/ \E path \in DirPaths, uret \in { 0, 1 } : Opendir(path, uret)
    \/ \E mallocOK \in BOOLEAN : Readdir(mallocOK)
    \/ sqfs_closedir

(***************************************************************************)
(* PART 6.  The file reader: sqfs_get_regfile_info, sqfs_read, sqfs_size.  *)
(* The caller's buffer is a function from byte index (0-based) to the byte *)
(* written there, UNTOUCHED where nothing was written.  A result of        *)
(* sqfs_read is [ret, buf, actread]; a result of sqfs_size is [ret, size]. *)
(***************************************************************************)
\* the size of the image's data blocks (sblk->block_size) in the model
BlockSize == 3
\* the largest regular file of the model, in bytes
MaxFileSize == 7

UNTOUCHED == -1

DIV_ROUND_UP(n, d) == (n + d - 1) \div d

\* the caller's buffer: room for every write the reader can make
BufSize == MaxFileSize + BlockSize * DIV_ROUND_UP(MaxFileSize, BlockSize)
FreshBuf == [ i \in 0 .. (BufSize - 1) |-> UNTOUCHED ]

\* memcpy(buf + at, src, Len(src))
memcpy(buf, at, src) ==
    [ i \in DOMAIN buf |->
        IF i >= at /\ i < at + Len(src) THEN src[i - at + 1] ELSE buf[i] ]

\* the size field of a data block or fragment: bit 24 set means "stored as is"
SQFS_BLOCK_SIZE(A) == A % 16777216
SQFS_COMPRESSED_BLOCK(A) == (A \div 16777216) % 2 = 0
SQFS_IS_FRAGMENTED(A) == A # NO_FRAGMENT

(* The compressed form of a run of bytes in the model: its length, then each
   byte complemented.  sqfs_decompress undoes it into a buffer of cap bytes
   and fails on input that is not of this form. *)
Compress(b) == << Len(b) >> \o [ i \in 1 .. Len(b) |-> 255 - b[i] ]

sqfs_decompress(src, cap) ==
    IF src # << >> /\ Head(src) = Len(src) - 1 /\ Head(src) <= cap
    THEN [ ret |-> 0, out |-> [ i \in 1 .. (Len(src) - 1) |->
                                  255 - src[i + 1] ] ]
    ELSE [ ret |-> -EINVAL, out |-> << >> ]

\* sqfs_frag_lookup: the fragment block entry with this index
sqfs_frag_lookup(img, inode_fragment_index) ==
    img.fragments[inode_fragment_index + 1]

\* regfile info that takes the offset sentinel alone as a broken inode
RegfileInfoOffsetAlone(img, lreg) ==
    IF lreg.offset = NO_FRAGMENT \/ lreg.file_size < 1 THEN -EINVAL
    ELSE IF SQFS_IS_FRAGMENTED(lreg.fragment)
    THEN lreg.file_size \div img.block_size
    ELSE DIV_ROUND_UP(lreg.file_size, img.block_size)

(* sqfs_get_regfile_info and sqfs_get_lregfile_info: the number of data
   blocks of the file, or a negative error.  finfo->comp is set to true for
   every fragmented file. *)
sqfs_get_regfile_info(img, reg) ==
    IF SQFS_IS_FRAGMENTED(reg.fragment) /\ reg.offset = NO_FRAGMENT
    THEN -EINVAL
    ELSE IF reg.file_size < 1 \/ reg.start_block = NO_FRAGMENT THEN -EINVAL
    ELSE IF SQFS_IS_FRAGMENTED(reg.fragment)
    THEN IF \/ sqfs_frag_lookup(img, reg.fragment).size < 1
            \/ sqfs_frag_lookup(img, reg.fragment).start = 2147483647
         THEN -EINVAL
         ELSE reg.file_size \div img.block_size
    ELSE DIV_ROUND_UP(reg.file_size, img.block_size)

sqfs_get_lregfile_info(img, lreg) ==
    IF SQFS_IS_FRAGMENTED(lreg.fragment) /\ lreg.offset = NO_FRAGMENT
    THEN -EINVAL
    ELSE IF lreg.file_size < 1 \/ lreg.start_block = 2147483647 THEN -EINVAL
    ELSE IF SQFS_IS_FRAGMENTED(lreg.fragment)
    THEN IF \/ sqfs_frag_lookup(img, lreg.fragment).size < 1
            \/ sqfs_frag_lookup(img, lreg.fragment).start = 2147483647
         THEN -EINVAL
         ELSE lreg.file_size \div img.block_size
    ELSE DIV_ROUND_UP(lreg.file_size, img.block_size)

\* what a call returns before it has written anything
ReadFailed(ret) == [ ret |-> ret, buf |-> FreshBuf, actread |-> 0 ]

(* The call ran into undefined behaviour (it dereferenced a NULL pointer):
   nothing can be said about what it returns or writes. *)
ReadUndefined == ReadFailed(CRASHED)

(* Lines 1336-1379, the loop over the data blocks from block j (0-based) on:
   every one of the count blocks is copied to buf + offset + *actread,
   whatever len is.  r is [ret, buf, actread] so far, data_offset the
   position of block j in the data area. *)
RECURSIVE ReadBlocks(_, _, _, _, _, _, _)

\* lines 1364-1372: z is what sqfs_decompress made of the block
ReadBlockComp(img, reg, count, offset, j, data_offset, r, table_size, z) ==
    IF z.ret # 0 THEN [ r EXCEPT !.ret = z.ret ]
    ELSE ReadBlocks(img, reg, count, offset, j + 1, data_offset + table_size,
             [ r EXCEPT !.buf = memcpy(@, offset + r.actread, z.out),
                        !.actread = @ + Len(z.out) ])

\* lines 1337-1378: one block, table_size bytes long on disk
ReadBlock(img, reg, count, offset, j, data_offset, r, table_size) ==
    IF SQFS_COMPRESSED_BLOCK(reg.blk_sizes[j + 1])
    THEN ReadBlockComp(img, reg, count, offset, j, data_offset, r, table_size,
             sqfs_decompress(SubSeq(img.disk, data_offset + 1,
                                    data_offset + table_size),
                             img.block_size))
    ELSE ReadBlocks(img, reg, count, offset, j + 1, data_offset + table_size,
             [ r EXCEPT !.buf = memcpy(@, offset + r.actread,
                                       SubSeq(img.disk, data_offset + 1,
                                              data_offset + table_size)),
                        !.actread = @ + table_size ])

ReadBlocks(img, reg, count, offset, j, data_offset, r) ==
    IF j >= count THEN r
    ELSE ReadBlock(img, reg, count, offset, j, data_offset, r,
                   SQFS_BLOCK_SIZE(reg.blk_sizes[j + 1]))

\* fragment_block[idx]; oob is what lies past the block_size bytes malloc gave
FragByte(fragment_block, idx, oob) ==
    IF idx < Len(fragment_block) THEN fragment_block[idx + 1] ELSE oob

(* Lines 1416-1429: z is the decoded fragment block; one byte is copied for
   every j from offset + *actread up to finfo.size, from index
   finfo.offset + j of the block. *)
ReadFragmentCopy(reg, offset, size, r, z, oob) ==
    IF z.ret # 0 THEN [ r EXCEPT !.ret = z.ret ]
    ELSE [ ret |-> 0,
           buf |-> [ i \in DOMAIN r.buf |->
                       IF i >= offset + r.actread /\ i < size
                       THEN FragByte(z.out, reg.offset + i, oob)
                       ELSE r.buf[i] ],
           actread |-> IF size > offset + r.actread
                       THEN size - offset ELSE r.actread ]

(* Lines 1391-1438.  finfo.comp is always true here, so the fragment block
   always goes through the decompressor, with frag_entry.size as its length;
   the branch for a block stored as is cannot be taken.  A length past the end
   of the device (a size with the flag bit set is) is larger than any length
   a block can begin with, and the decompressor rejects the input. *)
ReadFragment(img, reg, fentry, offset, size, r, oob) ==
    ReadFragmentCopy(reg, offset, size, r,
        IF fentry.size > Len(img.disk) - fentry.start
        THEN [ ret |-> -EINVAL, out |-> << >> ]
        ELSE sqfs_decompress(SubSeq(img.disk, fentry.start + 1,
                                    fentry.start + fentry.size),
                             img.block_size),
        oob)

\* lines 1381-1389: done unless the file has a tail in a fragment block
ReadTail(img, reg, offset, size, r, oob) ==
    IF r.ret # 0 \/ ~SQFS_IS_FRAGMENTED(reg.fragment) THEN r
    ELSE ReadFragment(img, reg, sqfs_frag_lookup(img, reg.fragment), offset,
                      size, r, oob)

(* Lines 1273-1438 for a regular file inode: datablk_count is what
   sqfs_get_regfile_info returned.  A len other than 0 replaces finfo.size. *)
ReadRegular(img, reg, datablk_count, offset, len, oob) ==
    IF datablk_count < 0 THEN ReadFailed(-EINVAL)
    ELSE IF len # 0 /\ len > reg.file_size THEN ReadFailed(-EINVAL)
    ELSE ReadTail(img, reg, offset,
                  IF len # 0 THEN len ELSE reg.file_size,
                  ReadBlocks(img, reg, datablk_count, offset, 0,
                             reg.start_block, ReadFailed(0)),
                  oob)

(* sqfs_read(filename, buf, offset, len, actread).  env is what the memory
   the reader must not rely on holds: env.uret the uninitialised ret of
   sqfs_search_dir, env.oob the byte past a fragment block.  fuel bounds the
   symlink recursion in the model. *)
RECURSIVE sqfs_read(_, _, _, _, _, _)

\* lines 1265-1315: ipos is the inode of the entry the scan stopped on
ReadInode(img, filename, ipos, offset, len, env, fuel) ==
    IF ipos.inode_type = SQFS_REG_TYPE
    THEN ReadRegular(img, ipos, sqfs_get_regfile_info(img, ipos), offset,
                     len, env.oob)
    ELSE IF ipos.inode_type = SQFS_LREG_TYPE
    THEN ReadRegular(img, ipos, sqfs_get_lregfile_info(img, ipos), offset,
                     len, env.oob)
    ELSE IF ipos.inode_type \in { SQFS_SYMLINK_TYPE, SQFS_LSYMLINK_TYPE }
    THEN IF fuel = 0 THEN ReadFailed(CUT_OFF)
         ELSE sqfs_read(img, sqfs_resolve_symlink(ipos, filename), offset,
                        len, env, fuel - 1)
    ELSE ReadFailed(-EINVAL)

\* lines 1257-1267: s is the result of the scan for the file name
ReadScanned(img, filename, s, offset, len, env, fuel) ==
    IF s.ret # 0 THEN ReadFailed(-ENOENT)
    ELSE ReadInode(img, filename,
             sqfs_find_inode(img, s.dirs.dir_header.inode_number
                                  + s.dirs.entry.inode_offset),
             offset, len, env, fuel)

(* Lines 1240-1255: o is what sqfs_opendir returned.  When it failed the
   stream pointer is still NULL and sqfs_closedir dereferences it; a walk
   that was cut off has not returned. *)
ReadOpened(img, filename, file, o, offset, len, env, fuel) ==
    IF o.ret = CUT_OFF THEN ReadFailed(CUT_OFF)
    ELSE IF o.ret # 0 THEN ReadUndefined
    ELSE ReadScanned(img, filename, ScanDir(img, o.dirs, file, o.ret, 0),
                     offset, len, env, fuel)

sqfs_read(img, filename, offset, len, env, fuel) ==
    IF filename = NULLSTR THEN ReadUndefined
    ELSE ReadOpened(img, filename, sqfs_split_path(filename).file,
             sqfs_opendir(img, sqfs_split_path(filename).dir, env.uret),
             offset, len, env, fuel)

(* sqfs_size(filename, size): [ret, size], size being 0 where the caller's
   variable is not written. *)
RECURSIVE sqfs_size(_, _, _, _)

SizeUndefined == [ ret |-> CRASHED, size |-> 0 ]

\* lines 1497-1532
SizeInode(img, filename, ipos, env, fuel) ==
    IF ipos.inode_type \in { SQFS_REG_TYPE, SQFS_LREG_TYPE }
    THEN [ ret |-> 0, size |-> ipos.file_size ]
    ELSE IF ipos.inode_type \in { SQFS_SYMLINK_TYPE, SQFS_LSYMLINK_TYPE }
    THEN IF fuel = 0 THEN [ ret |-> CUT_OFF, size |-> 0 ]
         ELSE sqfs_size(img, sqfs_resolve_symlink(ipos, filename), env,
                        fuel - 1)
    ELSE [ ret |-> -EINVAL, size |-> 0 ]

\* lines 1490-1499
SizeScanned(img, filename, s, env, fuel) ==
    IF s.ret # 0 THEN [ ret |-> -EINVAL, size |-> 0 ]
    ELSE SizeInode(img, filename,
             sqfs_find_inode(img, s.dirs.dir_header.inode_number
                                  + s.dirs.entry.inode_offset),
             env, fuel)

\* lines 1474-1488; sqfs_closedir(NULL) after a failed sqfs_opendir
SizeOpened(img, filename, file, o, env, fuel) ==
    IF o.ret = CUT_OFF THEN [ ret |-> CUT_OFF, size |-> 0 ]
    ELSE IF o.ret # 0 THEN SizeUndefined
    ELSE SizeScanned(img, filename, ScanDir(img, o.dirs, file, o.ret, 0),
                     env, fuel)

sqfs_size(img, filename, env, fuel) ==
    IF filename = NULLSTR THEN SizeUndefined
    ELSE SizeOpened(img, filename, sqfs_split_path(filename).file,
             sqfs_opendir(img, sqfs_split_path(filename).dir, env.uret),
             env, fuel)

(***************************************************************************)
(* PART 7.  sqfs_read and sqfs_size on the paths of an image (SpecRead).   *)
(***************************************************************************)
N_b == << 98 >>
N_c == << 99 >>
N_g == << 103 >>
N_h == << 104 >>
N_k == << 107 >>
N_l == << 108 >>
N_m == << 109 >>
N_n == << 110 >>
N_q == << 113 >>
N_t == << 116 >>
N_u == << 117 >>
N_v == << 118 >>
N_w == << 119 >>
N_y == << 121 >>
N_z == << 122 >>

\* the bytes of a file of this size: all distinct, none of them UNTOUCHED
Content(size) == [ i \in 1 .. size |-> 10 + i ]

(* The regular files /f may be: size bytes long; with its tail in a fragment
   block at in-fragment offset frag_offset, or without a fragment; its data
   blocks compressed or stored as they are. *)
RegFiles ==
    { f \in [ size : 1 .. MaxFileSize, frag : BOOLEAN, comp : BOOLEAN,
              frag_offset : { 0, 1 } ] :
        /\ f.frag => /\ f.size % BlockSize # 0
                     /\ f.frag_offset + (f.size % BlockSize) <= BlockSize
        /\ ~f.frag => f.frag_offset = 0 }

NBlocks(f) ==
    IF f.frag THEN f.size \div BlockSize
    ELSE DIV_ROUND_UP(f.size, BlockSize)

\* data block k (1-based) of the file, decoded and as stored
Payload(f, k) ==
    SubSeq(Content(f.size), (k - 1) * BlockSize + 1,
           Min(k * BlockSize, f.size))

Stored(f, k) == IF f.comp THEN Compress(Payload(f, k)) ELSE Payload(f, k)

DataArea(f) == Concat([ k \in 1 .. NBlocks(f) |-> Stored(f, k) ])

BlkSizes(f) ==
    [ k \in 1 .. NBlocks(f) |->
        Len(Stored(f, k)) + (IF f.comp THEN 0 ELSE 16777216) ]

\* the decoded fragment block: the tail of the file at frag_offset
FragBlockOf(f) ==
    [ i \in 1 .. BlockSize |->
        IF /\ f.frag /\ i > f.frag_offset
           /\ i <= f.frag_offset + (f.size % BlockSize)
        THEN Content(f.size)[NBlocks(f) * BlockSize + i - f.frag_offset]
        ELSE 90 + i ]

(* The image around a file f:
     /f        the file              /d/g      a two-byte file
     /l -> f                         /d/k -> ../f
     /m -> d/g                       /d/n -> k
     /q -> x   (no such file)        /d/z -> ../../f
     /c -> c   (a link to itself)
     /h        a file of two data blocks, the first of them a hole
     /u        a file with a fragment index and the offset 0xFFFFFFFF
     /v        an extended file with both fields 0xFFFFFFFF
     /w        an extended file with a fragment index and offset 0xFFFFFFFF
     /b        a directory whose one entry, y, has the entry type 0, which
               sqfs_readdir does not know, and the inode of /d/g
     /t        a two-byte file, all of it in a fragment block that is stored
               uncompressed: the bytes of g and the first byte of the second
               block of h
   The data area holds the blocks of f, its fragment block, the block of g
   (which is the block of u, v and w too) and the second block of h. *)
ReadImage(f) ==
    MakeImage(
        << [ ino |-> 15, headers |->
               << << [ name |-> N_y, ino |-> 2, type |-> 0 ] >> >> ],
           [ ino |-> 16, headers |->
               << << [ name |-> N_g, ino |-> 2, type |-> SQFS_REG_TYPE ],
                     [ name |-> N_k, ino |-> 5, type |-> SQFS_SYMLINK_TYPE ] >>,
                  << [ name |-> N_n, ino |-> 6, type |-> SQFS_SYMLINK_TYPE ],
                     [ name |-> N_z, ino |-> 7,
                       type |-> SQFS_SYMLINK_TYPE ] >> >> ],
           [ ino |-> 17, headers |->
               << << [ name |-> N_d, ino |-> 16, type |-> SQFS_DIR_TYPE ],
                     [ name |-> N_f, ino |-> 1, type |-> SQFS_REG_TYPE ] >>,
                  << [ name |-> N_l, ino |-> 3, type |-> SQFS_SYMLINK_TYPE ],
                     [ name |-> N_m, ino |-> 4, type |-> SQFS_SYMLINK_TYPE ],
                     [ name |-> N_q, ino |-> 8, type |-> SQFS_SYMLINK_TYPE ],
                     [ name |-> N_c, ino |-> 9, type |-> SQFS_SYMLINK_TYPE ],
                     [ name |-> N_h, ino |-> 10, type |-> SQFS_REG_TYPE ],
                     [ name |-> N_u, ino |-> 11, type |-> SQFS_REG_TYPE ],
                     [ name |-> N_v, ino |-> 12, type |-> SQFS_REG_TYPE ],
                     [ name |-> N_w, ino |-> 13, type |-> SQFS_REG_TYPE ],
                     [ name |-> N_b, ino |-> 15, type |-> SQFS_DIR_TYPE ],
                     [ name |-> N_t, ino |-> 14,
                       type |-> SQFS_REG_TYPE ] >> >> ] >>,
        << RegInode(f.size, 0, BlkSizes(f),
                    IF f.frag THEN 0 ELSE NO_FRAGMENT, f.frag_offset),
           RegInode(2, Len(DataArea(f)) + Len(Compress(FragBlockOf(f))),
                    << 2 + 16777216 >>, NO_FRAGMENT, 0),
           SymlinkInode(N_f),
           SymlinkInode(N_d \o << SLASH >> \o N_g),
           SymlinkInode(DOTDOT \o << SLASH >> \o N_f),
           SymlinkInode(N_k),
           SymlinkInode(DOTDOT \o << SLASH >> \o DOTDOT \o << SLASH >> \o N_f),
           SymlinkInode(N_x),
           SymlinkInode(N_c),
           RegInode(BlockSize + 2,
                    Len(DataArea(f)) + Len(Compress(FragBlockOf(f))) + 2,
                    << 0, 2 + 16777216 >>, NO_FRAGMENT, 0),
           RegInode(2, Len(DataArea(f)) + Len(Compress(FragBlockOf(f))),
                    << 2 + 16777216 >>, 0, NO_FRAGMENT),
           LRegInode(2, Len(DataArea(f)) + Len(Compress(FragBlockOf(f))),
                     << 2 + 16777216 >>, NO_FRAGMENT, NO_FRAGMENT),
           LRegInode(2, Len(DataArea(f)) + Len(Compress(FragBlockOf(f))),
                     << 2 + 16777216 >>, 0, NO_FRAGMENT),
           RegInode(2, 0, << >>, 1, 0) >>,
        DataArea(f) \o Compress(FragBlockOf(f)) \o << 31, 32 >>
        \o << 41, 42 >>,
        << [ start |-> Len(DataArea(f)),
             size |-> Len(Compress(FragBlockOf(f))) ],
           [ start |-> Len(DataArea(f)) + Len(Compress(FragBlockOf(f))),
             size |-> BlockSize + 16777216 ] >>,
        BlockSize)

ReadImages == { ReadImage(f) : f \in RegFiles }

P_f == << SLASH >> \o N_f

\* the paths to something other than /f that the calls name
OtherPaths ==
    { << SLASH >> \o N_l, << SLASH >> \o N_m, << SLASH >> \o N_q,
      << SLASH >> \o N_x, << SLASH >> \o N_d,
      << SLASH >> \o N_d \o << SLASH >> \o N_g,
      << SLASH >> \o N_d \o << SLASH >> \o N_k,
      << SLASH >> \o N_d \o << SLASH >> \o N_n,
      << SLASH >> \o N_d \o << SLASH >> \o N_z,
      N_d \o << SLASH >> \o N_k,
      << SLASH >> \o N_c, << SLASH >> \o N_c \o << SLASH >> \o N_g,
      << SLASH >> \o N_d \o << SLASH >> \o DOTDOT \o << SLASH >> \o N_f,
      << SLASH >> \o N_h, << SLASH >> \o N_u, << SLASH >> \o N_v,
      << SLASH >> \o N_w, << SLASH >> \o N_t, << SLASH >> \o N_b \o << SLASH >> \o N_x }

\* the offsets of the blocks of the largest file
ReadOffsets ==
    { k * BlockSize : k \in 0 .. (DIV_ROUND_UP(MaxFileSize, BlockSize) - 1) }

(* The calls of sqfs_read: /f whole and block by block from every block
   offset, /f from its start with a length of one byte and with a length
   past every file size, and the other paths whole. *)
ReadCalls ==
    [ path : { P_f }, offset : ReadOffsets, len : { 0, BlockSize } ]
    \cup [ path : { P_f }, offset : { 0 }, len : { 1, MaxFileSize + 1 } ]
    \cup [ path : OtherPaths, offset : { 0 }, len : { 0 } ]

NoCall == [ op |-> "none", path |-> << SLASH >>, offset |-> 0, len |-> 0,
            res |-> ReadFailed(0) ]

ReadInit ==
    /\ r_img \in ReadImages
    /\ r_env \in { [ oob |-> 0, uret |-> 0 ], [ oob |-> 255, uret |-> 1 ] }
    /\ r_last = NoCall
    /\ r_parts = << >>

ReadIdle ==
    /\ r_img = ReadImage([ size |-> 1, frag |-> FALSE, comp |-> FALSE,
                           frag_offset |-> 0 ])
    /\ r_env = [ oob |-> 0, uret |-> 0 ]
    /\ r_last = NoCall
    /\ r_parts = << >>

\* the inode of /f and the number of per-block reads that cover it
TheFile == r_img.inodes[1]
PartsNeeded == DIV_ROUND_UP(TheFile.file_size, BlockSize)

(* One call of sqfs_read into a fresh buffer.  The per-block reads of /f,
   made in order, are remembered next to the last call.  A call's result
   depends on the image and on its arguments only, so the calls on the other
   paths are made while no per-block read is remembered. *)
Read(c) ==
    /\ c.path # P_f => r_parts = << >>
    /\ \E res \in { sqfs_read(r_img, c.path, c.offset, c.len, r_env,
                              MaxChase) } :
        /\ r_last' = [ op |-> "read", path |-> c.path, offset |-> c.offset,
                       len |-> c.len, res |-> res ]
        /\ r_parts' = IF /\ c.path = P_f /\ c.len = BlockSize
                         /\ c.offset = Len(r_parts) * BlockSize
                         /\ Len(r_parts) < PartsNeeded
                      THEN Append(r_parts, res) ELSE r_parts
    /\ UNCHANGED << r_img, r_env, notReadVars >>

Size(path) ==
    /\ path # P_f => r_parts = << >>
    /\ r_last' = [ op |-> "size", path |-> path, offset |-> 0, len |-> 0,
                   res |-> sqfs_size(r_img, path, r_env, MaxChase) ]
    /\ UNCHANGED << r_img, r_env, r_parts, notReadVars >>

ReadNext ==
    \/ \E c \in ReadCalls : Read(c)
    \/ \E path \in OtherPaths \cup { P_f } : Size(path)

(***************************************************************************)
(* PART 8.  The heap allocations of sqfs_opendir, sqfs_closedir, sqfs_read *)
(* and sqfs_size (SpecMem).  The heap is the number of live blocks under   *)
(* each name the code gives its allocations.  A call is described by what  *)
(* its path names (a scenario) and by its first step that fails (fail).    *)
(***************************************************************************)
MemLabels ==
    { "dirs", "inode_table", "dir_table", "pos_list", "dir_header", "entry",
      "path", "token_list", "tokens", "file", "dir", "resolved",
      "sym_path", "sym_target", "sym_rem", "sym_res", "sym_tokens",
      "blk_sizes", "datablock", "data_buffer", "fragment", "fragment_block" }

EmptyHeap == [ l \in MemLabels |-> 0 ]

\* malloc / strdup of one block under each of these names
Mallocs(h, ls) == [ l \in MemLabels |-> IF l \in ls THEN h[l] + 1 ELSE h[l] ]

\* free of the block each of these pointers holds
Frees(h, ls) ==
    [ l \in MemLabels |-> IF l \in ls /\ h[l] > 0 THEN h[l] - 1 ELSE h[l] ]

\* n more blocks under one name
MallocN(h, l, n) == [ h EXCEPT ![l] = @ + n ]

(* sqfs_read_inode_table: [ret, heap].  itb is freed on every path, and the
   decoded table when the decompressor fails. *)
ReadInodeTableMem(h, fail) ==
    IF fail \in { "itb", "inode_table" } THEN [ ret |-> -ENOMEM, heap |-> h ]
    ELSE IF fail \in { "itb_read", "itb_decomp" }
    THEN [ ret |-> -EINVAL, heap |-> h ]
    ELSE [ ret |-> 0, heap |-> Mallocs(h, { "inode_table" }) ]

(* sqfs_read_directory_table: [ret, heap], ret the number of metadata blocks.
   When the decompressor fails dir_table is freed and pos_list is not. *)
ReadDirectoryTableMem(h, fail) ==
    IF fail = "dtb" THEN [ ret |-> -ENOMEM, heap |-> h ]
    ELSE IF fail \in { "dtb_read", "dir_table", "pos_list" }
    THEN [ ret |-> -1, heap |-> h ]
    ELSE IF fail = "dtb_decomp"
    THEN [ ret |-> -1, heap |-> Mallocs(h, { "pos_list" }) ]
    ELSE [ ret |-> 1, heap |-> Mallocs(h, { "dir_table", "pos_list" }) ]

\* how many symlinks a path of the model may run through
MaxLinks == 1

\* what the directory part of a path runs into
WalkEnds == { "root", "dir", "missing", "notdir", "empty" }
Walks ==
    { w \in [ links : 0 .. MaxLinks, end : WalkEnds ] :
        w.end = "root" => w.links = 0 }

(* sqfs_search_dir: [ret, heap] for a walk that meets walk.links symlinks
   and then ends as walk.end says.  Every entry read is freed again; each
   symlink leaves path, target, rem, res and the token list behind, and the
   recursive call allocates dirs->dir_header anew. *)
RECURSIVE SearchDirMem(_, _, _)
SearchDirMem(h, walk, fail) ==
    IF fail = "dir_header" THEN [ ret |-> -ENOMEM, heap |-> h ]
    ELSE IF walk.links > 0
    THEN SearchDirMem(
             Mallocs(h, { "dir_header", "sym_path", "sym_target", "sym_rem",
                          "sym_res", "sym_tokens" }),
             [ walk EXCEPT !.links = @ - 1 ], fail)
    ELSE [ ret |-> IF walk.end \in { "root", "dir" } THEN 0
                   ELSE IF walk.end = "empty" THEN SQFS_EMPTY_DIR
                   ELSE -EINVAL,
           heap |-> Mallocs(h, { "dir_header" }) ]

\* lines 832-886: t is what sqfs_read_directory_table returned
OpendirWalkMem(t, walk, fail) ==
    IF t.ret < 1 THEN [ ret |-> -EINVAL, heap |-> t.heap ]
    ELSE IF fail = "path" THEN [ ret |-> -ENOMEM, heap |-> t.heap ]
    ELSE IF fail = "token_list" THEN [ ret |-> -EINVAL, heap |-> t.heap ]
    ELSE [ ret |-> SearchDirMem(t.heap, walk, fail).ret,
           heap |-> Frees(SearchDirMem(t.heap, walk, fail).heap,
                          { "pos_list" }) ]

\* lines 824-830: i is what sqfs_read_inode_table returned
OpendirTablesMem(i, walk, fail) ==
    IF i.ret # 0 THEN [ ret |-> -EINVAL, heap |-> i.heap ]
    ELSE OpendirWalkMem(ReadDirectoryTableMem(i.heap, fail), walk, fail)

(* sqfs_opendir: [ret, heap].  The early returns release nothing; path, the
   tokens, the token list and pos_list are freed from free_tokens on. *)
OpendirMem(h, walk, fail) ==
    IF fail = "dirs" THEN [ ret |-> -EINVAL, heap |-> h ]
    ELSE OpendirTablesMem(ReadInodeTableMem(Mallocs(h, { "dirs" }), fail),
                          walk, fail)

\* sqfs_closedir: the two tables and the directory header
ClosedirMem(h) == Frees(h, { "inode_table", "dir_table", "dir_header" })

\* what the stream of a successful sqfs_opendir hands to its caller
StreamBlocks == { "dirs", "inode_table", "dir_table", "dir_header" }

\* the most data blocks a file of the model has
MaxBlocks == 2

\* what the last component of a path names
FileKinds == { "missing", "reg", "frag", "other" }
Scenarios ==
    { sc \in [ walk : Walks, hops : 0 .. MaxLinks, kind : FileKinds,
               blocks : 0 .. MaxBlocks ] :
        /\ sc.walk.end \in { "root", "dir" }
        /\ sc.kind = "reg" => sc.blocks >= 1
        /\ sc.kind \in { "missing", "other" } => sc.blocks = 0 }
\* a path whose directory part cannot be opened
BadDirScenarios ==
    [ walk : { w \in Walks : w.end \notin { "root", "dir" } },
      hops : { 0 }, kind : { "missing" }, blocks : { 0 } ]

OpendirFails ==
    { "dirs", "itb", "itb_read", "inode_table", "itb_decomp", "dtb",
      "dtb_read", "dir_table", "pos_list", "dtb_decomp", "path",
      "token_list", "dir_header" }
ReadFails ==
    { "frag_lookup", "blk_sizes", "len", "datablock", "data_buffer",
      "block_read", "fragment", "fragment_read", "fragment_block",
      "fragment_decomp" }

(* Lines 1391-1447 for a fragmented file: the fragment buffer and the decoded
   fragment block are freed on every path; then data_buffer and datablock. *)
ReadFragmentMem(h, fail) ==
    [ ret |-> IF fail \in { "fragment", "fragment_block" } THEN -ENOMEM
              ELSE IF fail \in { "fragment_read", "fragment_decomp" }
              THEN -EINVAL ELSE 0,
      heap |-> Frees(h, { "data_buffer", "datablock" }) ]

(* Lines 1327-1389: the block loop allocates data_buffer once per block and
   frees none; free_buffer frees the last one.  A failing step is taken to
   fail in the last block. *)
ReadBlocksMem(h, sc, fail) ==
    IF sc.blocks > 0 /\ fail = "datablock"
    THEN [ ret |-> -ENOMEM, heap |-> h ]
    ELSE IF sc.blocks > 0 /\ fail = "data_buffer"
    THEN [ ret |-> -ENOMEM,
           heap |-> MallocN(h, "data_buffer", sc.blocks - 1) ]
    ELSE IF sc.blocks > 0 /\ fail = "block_read"
    THEN [ ret |-> -EINVAL,
           heap |-> MallocN(h, "data_buffer", sc.blocks - 1) ]
    ELSE IF sc.kind = "frag"
    THEN ReadFragmentMem(
             Frees(MallocN(Mallocs(h, IF sc.blocks > 0 THEN { "datablock" }
                                      ELSE { }),
                           "data_buffer", sc.blocks),
                   { "blk_sizes" }),
             fail)
    ELSE [ ret |-> 0,
           heap |-> Frees(MallocN(h, "data_buffer", sc.blocks),
                          { "blk_sizes", "data_buffer" }) ]

\* lines 1273-1325: the file info, the block size list, the length check
ReadRegularMem(h, sc, fail) ==
    IF (sc.kind = "frag" /\ fail = "frag_lookup") \/ fail = "blk_sizes"
    THEN [ ret |-> -EINVAL, heap |-> h ]
    ELSE IF fail = "len"
    THEN [ ret |-> -EINVAL, heap |-> Mallocs(h, { "blk_sizes" }) ]
    ELSE ReadBlocksMem(Mallocs(h, { "blk_sizes" }), sc, fail)

(* sqfs_read: [ret, heap].  sc.hops is the number of symlinks the call
   follows from the last component of its path before it reaches what
   sc.kind says.  free_paths frees file and dir on every path; sqfs_closedir
   is called only where the file is not found. *)
RECURSIVE ReadMem(_, _, _)

\* lines 1257-1315 and 1448-1452: h holds the stream, file and dir
ReadFoundMem(h, sc, fail) ==
    IF sc.hops > 0
    THEN [ ret |-> ReadMem(Mallocs(h, { "entry", "resolved" }),
                           [ sc EXCEPT !.hops = @ - 1 ], fail).ret,
           heap |-> Frees(ReadMem(Mallocs(h, { "entry", "resolved" }),
                                  [ sc EXCEPT !.hops = @ - 1 ], fail).heap,
                          { "resolved", "file", "dir" }) ]
    ELSE IF sc.kind = "missing"
    THEN [ ret |-> -ENOENT,
           heap |-> Frees(ClosedirMem(h), { "file", "dir" }) ]
    ELSE IF sc.kind = "other"
    THEN [ ret |-> -EINVAL,
           heap |-> Frees(Mallocs(h, { "entry" }), { "file", "dir" }) ]
    ELSE [ ret |-> ReadRegularMem(Mallocs(h, { "entry" }), sc, fail).ret,
           heap |-> Frees(ReadRegularMem(Mallocs(h, { "entry" }), sc,
                                         fail).heap,
                          { "file", "dir" }) ]

\* lines 1240-1246: o is what sqfs_opendir returned; NULL stream when it failed
ReadOpenedMem(o, sc, fail) ==
    IF o.ret # 0
    THEN [ ret |-> CRASHED, heap |-> Frees(o.heap, { "file", "dir" }) ]
    ELSE ReadFoundMem(o.heap, sc, fail)

ReadMem(h, sc, fail) ==
    ReadOpenedMem(OpendirMem(Mallocs(h, { "file", "dir" }), sc.walk, fail),
                  sc, fail)

(* sqfs_size: [ret, heap].  The entry is freed once its inode is found, and
   sqfs_closedir is called at the end of every path. *)
RECURSIVE SizeMem(_, _, _)

\* lines 1490-1540
SizeFoundMem(h, sc, fail) ==
    IF sc.hops > 0
    THEN [ ret |-> SizeMem(Mallocs(h, { "resolved" }),
                           [ sc EXCEPT !.hops = @ - 1 ], fail).ret,
           heap |-> ClosedirMem(
                        Frees(SizeMem(Mallocs(h, { "resolved" }),
                                      [ sc EXCEPT !.hops = @ - 1 ],
                                      fail).heap,
                              { "resolved", "file", "dir" })) ]
    ELSE [ ret |-> IF sc.kind \in { "reg", "frag" } THEN 0 ELSE -EINVAL,
           heap |-> ClosedirMem(Frees(h, { "file", "dir" })) ]

\* lines 1474-1481
SizeOpenedMem(o, sc, fail) ==
    IF o.ret # 0
    THEN [ ret |-> CRASHED, heap |-> Frees(o.heap, { "file", "dir" }) ]
    ELSE SizeFoundMem(o.heap, sc, fail)

SizeMem(h, sc, fail) ==
    SizeOpenedMem(OpendirMem(Mallocs(h, { "file", "dir" }), sc.walk, fail),
                  sc, fail)

\* how many calls a run of SpecMem makes
MaxMemCalls == 2

MemInit ==
    /\ m_heap = EmptyHeap
    /\ m_stream = "none"
    /\ m_calls = 0
    /\ m_last = [ op |-> "none", ret |-> 0, before |-> EmptyHeap ]

MemOpendir(walk, fail) ==
    /\ m_calls < MaxMemCalls
    /\ m_stream = "none"
    /\ \E o \in { OpendirMem(m_heap, walk, fail) } :
        /\ m_heap' = o.heap
        /\ m_stream' = IF o.ret = 0 THEN "open" ELSE "none"
        /\ m_last' = [ op |-> "opendir", ret |-> o.ret, before |-> m_heap ]
    /\ m_calls' = m_calls + 1
    /\ UNCHANGED notMemVars

\* closes the stream the last sqfs_opendir handed out
MemClosedir ==
    /\ m_stream = "open"
    /\ m_heap' = ClosedirMem(m_heap)
    /\ m_stream' = "none"
    /\ m_last' = [ m_last EXCEPT !.op = "closedir", !.ret = 0 ]
    /\ UNCHANGED << m_calls, notMemVars >>

MemRead(sc, fail) ==
    /\ m_calls < MaxMemCalls
    /\ m_stream = "none"
    /\ \E r \in { ReadMem(m_heap, sc, fail) } :
        /\ m_heap' = r.heap
        /\ m_last' = [ op |-> "read", ret |-> r.ret, before |-> m_heap ]
    /\ m_calls' = m_calls + 1
    /\ UNCHANGED << m_stream, notMemVars >>

MemSize(sc, fail) ==
    /\ m_calls < MaxMemCalls
    /\ m_stream = "none"
    /\ \E r \in { SizeMem(m_heap, sc, fail) } :
        /\ m_heap' = r.heap
        /\ m_last' = [ op |-> "size", ret |-> r.ret, before |-> m_heap ]
    /\ m_calls' = m_calls + 1
    /\ UNCHANGED << m_stream, notMemVars >>

MemNext ==
    \/ \E walk \in Walks, fail \in OpendirFails \cup { "none" } :
          MemOpendir(walk, fail)
    \/ MemClosedir
    \/ \E sc \in Scenarios \cup BadDirScenarios,
          fail \in OpendirFails \cup ReadFails \cup { "none" } :
          MemRead(sc, fail)
    \/ \E sc \in Scenarios \cup BadDirScenarios,
          fail \in OpendirFails \cup { "none" } :
          MemSize(sc, fail)

(***************************************************************************)
(* PART 9.  The table loaders sqfs_read_inode_table and                    *)
(* sqfs_read_directory_table (SpecTable).  The table on disk is a chain of *)
(* metadata blocks; a block is [comp, dlen, ok]: whether its header flags  *)
(* it compressed, the length of its decoded payload (for a block stored    *)
(* uncompressed that is its stored length src_len), and whether            *)
(* sqfs_decompress succeeds on it.  The output buffer is described by the  *)
(* writes made into it, in order: [at, blk, len] is the payload of block   *)
(* blk (counted from 0), len bytes long, written at byte at.               *)
(***************************************************************************)
SQFS_METADATA_BLOCK_SIZE == 8192

\* the most blocks a chain has, and the decoded length of a short block
MaxChainBlocks == 3
ShortBlockLen == 100

MetaBlocks ==
    { b \in [ comp : BOOLEAN,
              dlen : { ShortBlockLen, SQFS_METADATA_BLOCK_SIZE },
              ok : BOOLEAN ] : ~b.comp => b.ok }

Chains == UNION { [ 1 .. n -> MetaBlocks ] : n \in 1 .. MaxChainBlocks }

(* Lines 681-707, the loop of sqfs_read_inode_table at block j with the
   running dest_offset: a compressed block is decoded to dest_offset, which
   grows by the decoded length of compressed blocks only; a block stored
   uncompressed is copied to j * SQFS_METADATA_BLOCK_SIZE.  A failed
   decompression frees the table and returns the error. *)
RECURSIVE InodeTableLoop(_, _, _, _)
InodeTableLoop(chain, j, dest_offset, table) ==
    IF j >= Len(chain) THEN [ ret |-> 0, table |-> table ]
    ELSE IF chain[j + 1].comp
    THEN IF ~chain[j + 1].ok THEN [ ret |-> -EINVAL, table |-> << >> ]
         ELSE InodeTableLoop(chain, j + 1, dest_offset + chain[j + 1].dlen,
                  Append(table, [ at |-> dest_offset, blk |-> j,
                                  len |-> chain[j + 1].dlen ]))
    ELSE InodeTableLoop(chain, j + 1, dest_offset,
             Append(table, [ at |-> j * SQFS_METADATA_BLOCK_SIZE, blk |-> j,
                             len |-> chain[j + 1].dlen ]))

\* sqfs_read_inode_table once the table is read from disk: [ret, table]
sqfs_read_inode_table(chain) == InodeTableLoop(chain, 0, 0, << >>)

(* Lines 772-804, the loop of sqfs_read_directory_table at block j: every
   block goes to j * SQFS_METADATA_BLOCK_SIZE; after a compressed block that
   decodes to fewer than SQFS_METADATA_BLOCK_SIZE bytes the loop is left.
   dest_offset is written and never read.  The return value is the number
   of blocks of the chain, or -1 after a failed decompression. *)
RECURSIVE DirectoryTableLoop(_, _, _)
DirectoryTableLoop(chain, j, table) ==
    IF j >= Len(chain) THEN [ ret |-> Len(chain), table |-> table ]
    ELSE IF chain[j + 1].comp /\ ~chain[j + 1].ok
    THEN [ ret |-> -1, table |-> << >> ]
    ELSE IF chain[j + 1].comp /\ chain[j + 1].dlen < SQFS_METADATA_BLOCK_SIZE
    THEN [ ret |-> Len(chain),
           table |-> Append(table, [ at |-> j * SQFS_METADATA_BLOCK_SIZE,
                                     blk |-> j,
                                     len |-> chain[j + 1].dlen ]) ]
    ELSE DirectoryTableLoop(chain, j + 1,
             Append(table, [ at |-> j * SQFS_METADATA_BLOCK_SIZE, blk |-> j,
                             len |-> chain[j + 1].dlen ]))

\* sqfs_read_directory_table once the table is read from disk: [ret, table]
sqfs_read_directory_table(chain) == DirectoryTableLoop(chain, 0, << >>)

NoLoad == [ op |-> "none", res |-> [ ret |-> 0, table |-> << >> ] ]

TableInit ==
    /\ t_chain \in Chains
    /\ t_last = NoLoad

TableIdle ==
    /\ t_chain = << [ comp |-> FALSE, dlen |-> ShortBlockLen, ok |-> TRUE ] >>
    /\ t_last = NoLoad

LoadInodeTable ==
    /\ t_last' = [ op |-> "inode", res |-> sqfs_read_inode_table(t_chain) ]
    /\ UNCHANGED << t_chain, notTableVars >>

LoadDirectoryTable ==
    /\ t_last' = [ op |-> "directory",
                   res |-> sqfs_read_directory_table(t_chain) ]
    /\ UNCHANGED << t_chain, notTableVars >>

TableNext == LoadInodeTable \/ LoadDirectoryTable

(***************************************************************************)
(* Specifications and properties.                                          *)
(***************************************************************************)
\* the initial states: one part varies, the other parts are idle
InitProbe == ProbeInit /\ DirIdle /\ ReadIdle /\ MemInit /\ TableIdle
InitDir == DirInit /\ ProbeInit /\ ReadIdle /\ MemInit /\ TableIdle
InitRead == ReadInit /\ ProbeInit /\ DirIdle /\ MemInit /\ TableIdle
InitMem == MemInit /\ ProbeInit /\ DirIdle /\ ReadIdle /\ TableIdle
InitTable == TableInit /\ ProbeInit /\ DirIdle /\ ReadIdle /\ MemInit

SpecProbe == InitProbe /\ [][ProbeNext]_vars

SpecDir == InitDir /\ [][DirNext]_vars

SpecRead == InitRead /\ [][ReadNext]_vars

SpecMem == InitMem /\ [][MemNext]_vars

SpecTable == InitTable /\ [][TableNext]_vars

\* the reader context states of the specification
Mounted == cur_dev # NULL
Unmounted == cur_dev = NULL

\* the ordering of the table offsets the specification asks probe to check
OffsetsOrdered(img) ==
    /\ img.inode_table_start < img.directory_table_start
    /\ img.directory_table_start < img.fragment_table_start
    /\ img.fragment_table_start <= img.export_table_start
    /\ img.export_table_start <= img.id_table_start
    /\ img.id_table_start <= img.bytes_used

(* C1: after a probe, the context is Mounted only if the probe succeeded, and
   after a failed probe (superblock read failure, bad magic, decompressor
   init failure) the context is Unmounted and the superblock buffer that
   probe allocated is no longer live. *)
C1_FailedProbeTearsDown ==
    probe_last.op = "probe" /\ probe_last.mallocOK =>
        /\ (Mounted => probe_last.ret = 0)
        /\ (probe_last.ret # 0 =>
              /\ Unmounted
              /\ (probe_last.buf # NULL =>
                    sblk_heap[probe_last.buf].st # "live"))

(* C2: probe succeeds exactly when the magic is right and the table offsets
   are ordered (given that the allocation, the device read and the
   decompressor initialisation succeed); an image with the right magic and
   mis-ordered offsets is rejected. *)
C2_ProbeIffMagicAndOrderedOffsets ==
    probe_last.op = "probe" =>
        /\ (probe_last.ret = 0 =>
              MagicOK(probe_last.img) /\ OffsetsOrdered(probe_last.img))
        /\ (/\ MagicOK(probe_last.img) /\ OffsetsOrdered(probe_last.img)
            /\ probe_last.mallocOK /\ probe_last.readOK
            /\ probe_last.decompOK
            => probe_last.ret = 0)

\* the names, in on-disk order, of the directory the stream was opened on
StreamNames == DirNames(HeadersOf(d_img, d_dir))

(* C3: on an open stream whose readdir calls all got their memory, the names
   yielded so far are the first names of the directory in on-disk order: call
   k yields entry k for k up to the number of entries, across every header
   boundary, and call entry_count + 1 and the calls after it return
   end-of-stream and yield nothing. *)
C3_ReaddirYieldsEntriesInOrder ==
    d_state = "open" /\ d_last.clean =>
        /\ Len(yielded) <= Len(StreamNames)
        /\ yielded = SubSeq(StreamNames, 1, Len(yielded))
        /\ (d_last.calls <= Len(StreamNames) =>
              /\ Len(yielded) = d_last.calls
              /\ d_last.ret = 0)
        /\ (d_last.calls > Len(StreamNames) =>
              /\ yielded = StreamNames
              /\ d_last.ret = -SQFS_STOP_READDIR
              /\ d_last.dent = NoDent)

\* a directory of several headers read to its end: every name, then the stop
C3_Witness ==
    /\ d_state = "open" /\ d_last.clean
    /\ Len(HeadersOf(d_img, d_dir)) >= 2
    /\ Len(StreamNames) >= 3
    /\ d_last.calls = Len(StreamNames) + 1
    /\ yielded = StreamNames
    /\ d_last.ret = -SQFS_STOP_READDIR

\* the path names a directory whose inode has the empty sentinel as file_size
EmptyDirPath(img, path) ==
    /\ IsDirIno(img, Lookup(img, path))
    /\ sqfs_is_empty_dir(img.inodes[Lookup(img, path)])

(* C4: opendir on an empty directory produces a stream, and the first readdir
   on that stream returns end-of-stream without yielding an entry. *)
C4_EmptyDirOpensThenStops ==
    EmptyDirPath(d_img, d_last.path) =>
        /\ (d_last.op = "opendir" => d_last.ret = 0 /\ d_state = "open")
        /\ (d_last.op = "readdir" /\ d_last.calls = 1 =>
              d_last.ret = -SQFS_STOP_READDIR /\ yielded = << >>)

(* C5: once a readdir on a stream has returned end-of-stream because the byte
   budget is used up, every later readdir on it returns end-of-stream, hands
   out no entry and yields no name; and closedir is accepted on an open
   stream whatever has been read from it. *)
C5_ExhaustedStaysExhausted ==
    /\ [](d_state = "open" => ENABLED sqfs_closedir)
    /\ [][ d_state = "open" /\ d_last.exhausted /\ d_last'.op = "readdir" =>
             /\ d_last'.ret = -SQFS_STOP_READDIR
             /\ d_last'.dent = NoDent
             /\ d_last'.why = "budget"
             /\ yielded' = yielded ]_vars

\* an exhausted stream was read again, more than once, and then closed
C5_Witness ==
    /\ d_state = "closed"
    /\ d_last.exhausted /\ d_last.clean
    /\ yielded = StreamNames
    /\ d_last.calls >= Len(yielded) + 3

\* the bytes a call wrote to the caller's buffer, in the order of their place
Produced(res) ==
    SelectSeq([ i \in 1 .. BufSize |-> res.buf[i - 1] ],
              LAMBDA b : b # UNTOUCHED)

\* the last call was sqfs_read on the regular file /f
ReadOfFile == r_last.op = "read" /\ r_last.path = P_f

(* C7: a successful read of a regular file at an offset inside the file
   writes min(len, file_size - offset) bytes to the buffer, len = 0 standing
   for the file size, and returns that number in actread. *)
C7_BytesWrittenIsMinLenRest ==
    ReadOfFile /\ r_last.res.ret = 0 /\ r_last.offset < TheFile.file_size =>
        /\ Len(Produced(r_last.res)) =
               Min(IF r_last.len = 0 THEN TheFile.file_size ELSE r_last.len,
                   TheFile.file_size - r_last.offset)
        /\ r_last.res.actread = Len(Produced(r_last.res))

(* C8: a read with len = 0 succeeds and puts the whole file, byte for byte,
   at the start of the buffer; a read with len greater than the file size
   fails with an error, writes nothing and leaves actread at 0. *)
C8_ZeroLenWholeFileLongLenError ==
    ReadOfFile /\ r_last.offset = 0 =>
        /\ (r_last.len = 0 =>
              /\ r_last.res.ret = 0
              /\ r_last.res.actread = TheFile.file_size
              /\ Produced(r_last.res) = Content(TheFile.file_size)
              /\ \A i \in 0 .. (TheFile.file_size - 1) :
                    r_last.res.buf[i] = Content(TheFile.file_size)[i + 1])
        /\ (r_last.len > TheFile.file_size =>
              /\ r_last.res.ret = -EINVAL
              /\ r_last.res.actread = 0
              /\ Produced(r_last.res) = << >>)

(* C9: once every per-block read read(/f, buf, k * block_size, block_size),
   k < ceil(file_size / block_size), has been made, the bytes they produced,
   concatenated in the order of k, are the bytes read(/f, buf, 0, 0)
   produces. *)
C9_WholeReadIsConcatOfBlockReads ==
    /\ ReadOfFile /\ r_last.offset = 0 /\ r_last.len = 0
    /\ Len(r_parts) = PartsNeeded
    => Produced(r_last.res)
           = Concat([ k \in 1 .. Len(r_parts) |-> Produced(r_parts[k]) ])

\* what the path names, its last component not followed: an inode number or 0
Terminal(img, path) == Lookup(img, path)

LinkTarget(img, path) ==
    SubSeq(img.inodes[Terminal(img, path)].symlink, 1,
           img.inodes[Terminal(img, path)].symlink_size)

\* the number of ".." components the target starts with
RECURSIVE LeadingUps(_)
LeadingUps(tokens) ==
    IF tokens # << >> /\ Head(tokens) = DOTDOT
    THEN 1 + LeadingUps(Tail(tokens)) ELSE 0

\* '/' before every component
RECURSIVE SlashJoin(_)
SlashJoin(tokens) ==
    IF tokens = << >> THEN << >>
    ELSE << SLASH >> \o Head(tokens) \o SlashJoin(Tail(tokens))

(* resolve(P, T): the last component of P replaced by T, one further
   component of P taken away for each ".." of T.  It is defined when the
   ".." components of T all stand at its start and P has that many
   components to give. *)
ResolveDefined(P, T) ==
    /\ \A i \in 1 .. Len(StrTok(T)) :
          StrTok(T)[i] = DOTDOT => i <= LeadingUps(StrTok(T))
    /\ LeadingUps(StrTok(T)) <= Len(StrTok(P)) - 1
    /\ LeadingUps(StrTok(T)) < Len(StrTok(T))

Resolve(P, T) ==
    SlashJoin(SubSeq(StrTok(P), 1,
                     Len(StrTok(P)) - 1 - LeadingUps(StrTok(T)))
              \o SubSeq(StrTok(T), LeadingUps(StrTok(T)) + 1,
                        Len(StrTok(T))))

\* the last call named a path whose last component is a symlink
CallOnLink ==
    /\ r_last.op \in { "read", "size" }
    /\ Terminal(r_img, r_last.path) # 0
    /\ r_img.inodes[Terminal(r_img, r_last.path)].inode_type
           = SQFS_SYMLINK_TYPE
    /\ ResolveDefined(r_last.path, LinkTarget(r_img, r_last.path))

(* C10: read and size of a path P whose last component is a symlink with
   target T return what read and size of resolve(P, T) return: the same
   return value, the same bytes in the buffer and the same actread, or the
   same size. *)
C10_LinkReadEqualsResolvedRead ==
    CallOnLink =>
        r_last.res =
            IF r_last.op = "read"
            THEN sqfs_read(r_img,
                     Resolve(r_last.path, LinkTarget(r_img, r_last.path)),
                     r_last.offset, r_last.len, r_env, MaxChase)
            ELSE sqfs_size(r_img,
                     Resolve(r_last.path, LinkTarget(r_img, r_last.path)),
                     r_env, MaxChase)

\* /d/k -> ../f was read: the bytes of an unfragmented /f came back
C10_Witness ==
    /\ CallOnLink /\ r_last.op = "read"
    /\ r_last.path = << SLASH >> \o N_d \o << SLASH >> \o N_k
    /\ TheFile.file_size > BlockSize
    /\ r_last.res.ret = 0
    /\ Produced(r_last.res) = Content(TheFile.file_size)

(* C6: read and size return with the heap as they met it; so does an opendir
   that fails; an opendir that succeeds leaves exactly the blocks of the
   stream it hands out, and closedir releases them. *)
C6_AllocationsReleased ==
    /\ (m_last.op \in { "read", "size" } => m_heap = m_last.before)
    /\ (m_last.op = "opendir" /\ m_last.ret # 0 => m_heap = m_last.before)
    /\ (m_last.op = "opendir" /\ m_last.ret = 0 =>
            m_heap = Mallocs(m_last.before, StreamBlocks))
    /\ (m_last.op = "closedir" => m_heap = m_last.before)

\* the last call named a path that runs into the link /c, which names itself
CallOnCycle ==
    /\ r_last.op \in { "read", "size" }
    /\ Len(StrTok(r_last.path)) >= 1
    /\ StrTok(r_last.path)[1] = N_c

(* C11: a call on a path whose symlinks form a cycle returns, and returns an
   error: it is not still chasing links when its budget of chases is used
   up. *)
C11_CycleEndsWithLoopError ==
    CallOnCycle => r_last.res.ret \notin { 0, CUT_OFF, CRASHED }

\* the path /d/../f: through the directory /d and back up to the file /f
P_updir == << SLASH >> \o N_d \o << SLASH >> \o DOTDOT \o << SLASH >> \o N_f

(* C12: read and size of /d/../f, with /d a directory and /f a file, succeed
   and return what read and size of /f return. *)
C12_DotDotNamesParent ==
    r_last.op \in { "read", "size" } /\ r_last.path = P_updir =>
        /\ r_last.res.ret = 0
        /\ r_last.res =
              IF r_last.op = "read"
              THEN sqfs_read(r_img, P_f, r_last.offset, r_last.len, r_env,
                             MaxChase)
              ELSE sqfs_size(r_img, P_f, r_env, MaxChase)

\* the decoded fragment block that holds the tail of the file with inode reg
TailBlock(img, reg) ==
    sqfs_decompress(SubSeq(img.disk,
                           sqfs_frag_lookup(img, reg.fragment).start + 1,
                           sqfs_frag_lookup(img, reg.fragment).start
                           + SQFS_BLOCK_SIZE(
                                 sqfs_frag_lookup(img, reg.fragment).size)),
                    img.block_size).out

\* the last call read the whole of /f, a file with its tail in a fragment
WholeReadOfFragmented ==
    /\ ReadOfFile /\ r_last.offset = 0 /\ r_last.len = 0
    /\ SQFS_IS_FRAGMENTED(TheFile.fragment)

(* C13: the whole read of a fragmented file succeeds and puts, after the
   bytes of the data blocks, file_size % block_size bytes of the decoded
   fragment block, taken from in_fragment_offset on, whatever the number of
   data blocks before them. *)
C13_TailFromFragmentOffset ==
    WholeReadOfFragmented =>
        /\ r_last.res.ret = 0
        /\ r_last.res.actread = TheFile.file_size
        /\ \A i \in 0 .. ((TheFile.file_size % r_img.block_size) - 1) :
              r_last.res.buf[TheFile.file_size
                             - (TheFile.file_size % r_img.block_size) + i]
                  = TailBlock(r_img, TheFile)[TheFile.offset + i + 1]

(* C14: the read of /h, whose first data block is a hole (size field 0) and
   whose second block holds the bytes 41, 42, succeeds: block_size zero bytes
   for the hole, then the two bytes of the second block. *)
C14_HoleReadsAsZeros ==
    r_last.op = "read" /\ r_last.path = << SLASH >> \o N_h =>
        /\ r_last.res.ret = 0
        /\ r_last.res.actread = r_img.block_size + 2
        /\ \A i \in 0 .. (r_img.block_size - 1) : r_last.res.buf[i] = 0
        /\ r_last.res.buf[r_img.block_size] = 41
        /\ r_last.res.buf[r_img.block_size + 1] = 42


\* the last call read the whole of a regular or extended regular file
ReadOfRegular ==
    /\ r_last.op = "read" /\ r_last.offset = 0 /\ r_last.len = 0
    /\ Terminal(r_img, r_last.path) # 0
    /\ r_img.inodes[Terminal(r_img, r_last.path)].inode_type
           \in { SQFS_REG_TYPE, SQFS_LREG_TYPE }

\* the inode the last call's path names
TheInode == r_img.inodes[Terminal(r_img, r_last.path)]

\* what the file info decoder of the inode's type makes of it
TheInfo ==
    IF TheInode.inode_type = SQFS_REG_TYPE
    THEN sqfs_get_regfile_info(r_img, TheInode)
    ELSE sqfs_get_lregfile_info(r_img, TheInode)

(* C15, as the code has it: a fragment index of 0xFFFFFFFF means "no
   fragment" whatever the in-fragment offset is, and the inode is decoded as
   a file whose data blocks cover all of it; a fragment index other than
   0xFFFFFFFF with the offset 0xFFFFFFFF makes the read fail with an error
   and write nothing. *)
C15_NoFragmentWhateverOffset ==
    ReadOfRegular =>
        /\ (TheInode.fragment = NO_FRAGMENT =>
              TheInfo = DIV_ROUND_UP(TheInode.file_size, r_img.block_size))
        /\ (TheInode.fragment # NO_FRAGMENT /\ TheInode.offset = NO_FRAGMENT
              => r_last.res = ReadFailed(-EINVAL))

\* /v, an extended file with both fields 0xFFFFFFFF, was read: its two bytes
C15_Witness ==
    /\ ReadOfRegular /\ r_last.path = << SLASH >> \o N_v
    /\ TheInode.fragment = NO_FRAGMENT /\ TheInode.offset = NO_FRAGMENT
    /\ r_last.res.ret = 0
    /\ Produced(r_last.res) = << 31, 32 >>

(* C15 as stated: both fields 0xFFFFFFFF is accepted as "no fragment", and
   an inode with exactly one of the two fields equal to 0xFFFFFFFF makes the
   read fail. *)
C15_SentinelPairsOnly ==
    ReadOfRegular =>
        /\ (TheInode.fragment = NO_FRAGMENT /\ TheInode.offset = NO_FRAGMENT
              => TheInfo >= 0)
        /\ ((TheInode.fragment = NO_FRAGMENT) # (TheInode.offset = NO_FRAGMENT)
              => r_last.res.ret # 0)

P_bx == << SLASH >> \o N_b \o << SLASH >> \o N_x

(* C16: a call of read or size on a name that no entry of its directory
   carries returns a not-found error and uses no entry as if it had matched.
   /x is sought in the root, whose scan runs over entries of other names; x
   is sought in /b, whose first readdir already returns end-of-stream. *)
C16_NoMatchIsNotFound ==
    r_last.op \in { "read", "size" } /\ r_last.path \in { << SLASH >> \o N_x, P_bx }
        => r_last.res.ret \in { -ENOENT, -EINVAL }

\* the last load decoded a chain all of whose blocks decompress
LoadedWholeChain ==
    /\ t_last.op \in { "inode", "directory" }
    /\ \A i \in 1 .. Len(t_chain) : t_chain[i].ok

(* C17: both table loaders put the decoded payload of every block j of the
   chain at byte j * 8192 of the output buffer, whether the blocks are
   compressed or not and whatever their decoded lengths. *)
C17_BlockAtIndexTimes8192 ==
    LoadedWholeChain =>
        \A j \in 0 .. (Len(t_chain) - 1) :
            \E k \in 1 .. Len(t_last.res.table) :
                t_last.res.table[k] = [ at |-> j * 8192, blk |-> j,
                                        len |-> t_chain[j + 1].dlen ]

(* C18: the tail of a fragmented file whose fragment block is flagged
   uncompressed is copied from the block as stored, without a call of the
   decompressor: the whole read of /t returns its two bytes, the first two
   of the stored block. *)
C18_StoredFragmentCopied ==
    r_last.op = "read" /\ r_last.path = << SLASH >> \o N_t =>
        /\ r_last.res.ret = 0
        /\ r_last.res.actread = 2
        /\ r_last.res.buf[0] = 31 /\ r_last.res.buf[1] = 32

(* C19: over any sequence of probe and close calls every superblock buffer
   is passed to free at most once, and the buffer ctxt.sblk points to, if
   any, has not been freed. *)
C19_SblkFreedAtMostOnce ==
    /\ \A b \in SblkBufs : sblk_heap[b].frees <= 1
    /\ ctxt_sblk # NULL => sblk_heap[ctxt_sblk].st = "live"

\* the blocks of a stream that sqfs_closedir, and nothing after sqfs_opendir
\* but sqfs_closedir, frees
ClosedirBlocks == { "inode_table", "dir_table" }

(* C20: read and size never call closedir on the NULL stream a failed
   opendir leaves, and they call it once on every stream opendir handed
   them: when they return, the tables of each such stream are released. *)
C20_ClosedirOncePerStream ==
    m_last.op \in { "read", "size" } =>
        /\ m_last.ret # CRASHED
        /\ \A l \in ClosedirBlocks : m_heap[l] = m_last.before[l]

====
